---- MODULE Spec2Model ----
(***************************************************************************)
(* Model of the Sekiro BitTorrent core: the file-mapping storage layer     *)
(* (src/src/storage/files.rs), the per-piece block accounting             *)
(* (src/src/net/piece_manager.rs) and the block coordinator               *)
(* (src/src/net/block_manager.rs).                                        *)
(*                                                                         *)
(* Byte strings are run-length encoded: a sequence of runs [n, v] standing *)
(* for n copies of the octet v, kept canonical (no empty run, no two       *)
(* adjacent runs with the same octet) so that equal byte strings are equal *)
(* values.  This keeps 16 KiB blocks small without changing any offset.    *)
(***************************************************************************)
EXTENDS Integers, Sequences, FiniteSets, TLC

VARIABLES
    torrent,         \* Torrent: piece_length, pieces (hashes), length, multi, files
    payload,         \* the true content of the torrent in piece space (environment)
    file_map,        \* FileStorage.file_map: sequence of FileMapping
    disk,            \* the file system: one entry per mapping, [exists, data]
    pieces,          \* BlockManager.pieces: index -> Piece
    download_queue,  \* BlockManager.download_queue
    stats,           \* BlockManager.stats
    now,             \* Instant::now(), in seconds
    panicked,        \* the process aborted on a panic
    committed,       \* history: per piece, the octets whose digest was compared when
                     \* the piece was last set Verified (NoData while not Verified)
    probe,           \* the last get_affected_files query and its result
    held,            \* the piece the download driver works on ({}: none)
    inflight,        \* block requests sent to peers and not yet answered
    corrupt_left,    \* corrupt answers the peers may still give
    metainfo,        \* the octets of the .torrent file handed to the decoder (<<>> in the
                     \* specifications that start from a Torrent record)
    loaded,          \* the last call of the metainfo codec and its result
    calls,           \* per caller thread: the coordinator call it is in and the position
                     \* in it, or the result of its last call
    holders          \* per mutex (the storage's, each piece's): the threads that hold it

vars == <<torrent, payload, file_map, disk, pieces, download_queue, stats, now, panicked,
          committed, probe, held, inflight, corrupt_left, metainfo, loaded, calls, holders>>

\* the metainfo and the true content never change after start-up; the flags of
\* the file map change only in check_existing_files
fixedVars == <<torrent, payload, file_map>>

\* the variables only the download driver and its peers use
driverVars == <<held, inflight, corrupt_left>>

\* the variables only the metainfo codec uses
codecVars == <<metainfo, loaded>>

\* the variables only concurrent callers of the coordinator use
threadVars == <<calls, holders>>

----------------------------------------------------------------------------
(* Program constants                                                       *)

BLOCK_SIZE == 16384

MAX_PENDING_REQUESTS == 10

REQUEST_TIMEOUT == 30

----------------------------------------------------------------------------
(* Byte strings                                                            *)

Min(a, b) == IF a < b THEN a ELSE b

Max(a, b) == IF a > b THEN a ELSE b

Run(n, v) == [n |-> n, v |-> v]

\* a - b in usize when a < b, with k = b - a: the panic 'attempt to subtract
\* with overflow' of a build with overflow checks, the value 2^64 - k of a
\* build without
Overflow(k) == [overflow |-> k]

\* a - b in usize
USizeSub(a, b) == IF a >= b THEN a - b ELSE Overflow(b - a)

\* the outcome of a call that panics
Panic == [panic |-> TRUE]

\* the outcome of a call whose arithmetic overflows: `checked` in a build with
\* overflow checks (the panic 'attempt to ... with overflow'), `wrapping` in a
\* build without, where the operation wraps modulo 2^64
PerBuild(checked, wrapping) == [checked |-> checked, wrapping |-> wrapping]

\* the result differs by build
ByBuild(result) == "checked" \in DOMAIN result

\* usize values next to 2^64 are written in two's complement: the integer -k
\* (k > 0, small) stands for 2^64 - k, so that 0 - 1 is usize::MAX.  a + b
\* leaves usize:
Wraps(a, b) == (a < 0 /\ b < 0) \/ ((a < 0 \/ b < 0) /\ a + b >= 0)

\* a > b in usize
UGreater(a, b) == IF (a < 0) = (b < 0) THEN a > b ELSE a < 0

RECURSIVE BLen(_)
BLen(d) == IF d = <<>> THEN 0 ELSE Head(d).n + BLen(Tail(d))

\* canonical form of a sequence of runs
RECURSIVE Norm(_)
Norm(d) ==
    IF d = <<>> THEN <<>>
    ELSE IF Head(d).n = 0 THEN Norm(Tail(d))
    ELSE LET r == Norm(Tail(d)) IN
         IF r # <<>> /\ Head(r).v = Head(d).v
         THEN <<Run(Head(d).n + Head(r).n, Head(d).v)>> \o Tail(r)
         ELSE <<Head(d)>> \o r

BCat(a, b) == Norm(a \o b)

\* the first k octets of d (all of d when it is shorter)
RECURSIVE BTake(_, _)
BTake(d, k) ==
    IF k <= 0 \/ d = <<>> THEN <<>>
    ELSE IF Head(d).n <= k THEN <<Head(d)>> \o BTake(Tail(d), k - Head(d).n)
    ELSE <<Run(k, Head(d).v)>>

\* d without its first k octets
RECURSIVE BDrop(_, _)
BDrop(d, k) ==
    IF k <= 0 \/ d = <<>> THEN d
    ELSE IF Head(d).n <= k THEN BDrop(Tail(d), k - Head(d).n)
    ELSE <<Run(Head(d).n - k, Head(d).v)>> \o Tail(d)

\* d[from .. to)
BSlice(d, from, to) == BTake(BDrop(d, from), to - from)

\* vec![0u8; n]
Zeros(n) == IF n <= 0 THEN <<>> ELSE <<Run(n, 0)>>

\* buf[begin .. begin + |data|].copy_from_slice(data), for a slice inside buf
CopyFromSlice(buf, begin, data) ==
    BCat(BCat(BTake(buf, begin), data), BDrop(buf, begin + BLen(data)))

\* SHA-1 as an ideal hash: two digests are equal exactly when the hashed octet
\* sequences are.  The state of a hasher is the sequence of the octets fed to
\* it so far: Sha1::new() is the empty sequence and Sha1From(h, d) is
\* hasher.update(d) on the state h.
Sha1From(h, d) == BCat(h, d)

\* Sha1::new(), update(d), finalize()
Sha1(d) == [sha1 |-> Sha1From(<<>>, d)]

----------------------------------------------------------------------------
(* File map and storage (src/src/storage/files.rs)                         *)

RECURSIVE SumSeq(_)
SumSeq(s) == IF s = <<>> THEN 0 ELSE Head(s) + SumSeq(Tail(s))

\* FileStorage::build_file_map: one mapping per declared file at the running
\* prefix sum, or a single mapping of torrent.length for a single-file torrent
RECURSIVE BuildMulti(_, _)
BuildMulti(files, current_offset) ==
    IF files = <<>> THEN <<>>
    ELSE <<[start_offset |-> current_offset, length |-> Head(files), is_complete |-> FALSE]>>
         \o BuildMulti(Tail(files), current_offset + Head(files))

build_file_map(tor) ==
    IF tor.multi
    THEN BuildMulti(tor.files, 0)
    ELSE <<[start_offset |-> 0, length |-> tor.length, is_complete |-> FALSE]>>

\* FileStorage::check_existing_files: a file of exactly the declared size is set
\* complete; the flag of no mapping is ever cleared
check_existing_files(fm, dsk) ==
    [k \in DOMAIN fm |->
        [fm[k] EXCEPT !.is_complete =
            @ \/ (dsk[k].exists /\ BLen(dsk[k].data) = fm[k].length)]]

\* an overlap whose end is not clamped to the range asked for
Overlap_unclamped(k, start, end, file_start, file_end) ==
    <<k, Max(start, file_start), file_end>>

\* the tuple get_affected_files pushes for an overlapping mapping
Overlap(k, start, end, file_start, file_end) ==
    <<k, Max(start, file_start), Min(end, file_end)>>

\* FileStorage::get_affected_files: <<mapping index, overlap_start, overlap_end>>
\* for every mapping that overlaps [start, end), in file_map order
RECURSIVE AffectedFrom(_, _, _, _)
AffectedFrom(fm, k, start, end) ==
    IF k > Len(fm) THEN <<>>
    ELSE LET file_start == fm[k].start_offset
             file_end   == fm[k].start_offset + fm[k].length
         IN  (IF start < file_end /\ end > file_start
              THEN <<Overlap(k, start, end, file_start, file_end)>>
              ELSE <<>>)
             \o AffectedFrom(fm, k + 1, start, end)

get_affected_files(fm, start, end) == AffectedFrom(fm, 1, start, end)

\* FileStorage::verify_piece_hash: "err" for an index out of range
verify_piece_hash(tor, piece_index, data) ==
    IF piece_index >= Len(tor.pieces) THEN "err"
    ELSE IF Sha1(data) = tor.pieces[piece_index + 1] THEN "true" ELSE "false"

\* FileStorage::write_to_file: open with create and without truncate, seek, write_all.
\* Seeking past the end and writing leaves a hole that reads back as zeros; a
\* seek alone does not change the size.
write_to_file(file, offset, data) ==
    LET old  == IF file.exists THEN file.data ELSE <<>>
        size == IF BLen(data) = 0 THEN BLen(old)
                ELSE Max(BLen(old), offset + BLen(data))
        wide == BCat(old, Zeros(size - BLen(old)))
    IN  [exists |-> TRUE, data |-> CopyFromSlice(wide, offset, data)]

\* the position in the file at which write_piece writes an overlap
WriteStart(fm, k, file_start, piece_start) == file_start - piece_start

\* a write_to_file that ends in an I/O error: at the open (cut < 0: the file is
\* as it was), or inside write_all after `cut` octets of data were written
\* (the file is created; with no octet written its size is as it was)
WriteFailure(file, offset, data, cut) ==
    IF cut < 0 THEN file
    ELSE write_to_file(file, offset, BTake(data, Min(cut, BLen(data) - 1)))

\* no write_to_file fails
NoFault == [call |-> 0, cut |-> 0 - 1]

\* the loop of write_piece over the affected files; fault.call is the number of
\* the write_to_file call that ends in an I/O error (0: none does) and
\* fault.cut says where in that call
RECURSIVE WriteLoop(_, _, _, _, _, _, _)
WriteLoop(fm, dsk, affected, piece_start, data, offset, fault) ==
    IF affected = <<>> THEN [ok |-> TRUE, disk |-> dsk]
    ELSE LET k            == Head(affected)[1]
             file_start   == Head(affected)[2]
             file_end     == Head(affected)[3]
             write_start  == WriteStart(fm, k, file_start, piece_start)
             write_length == file_end - file_start
             file_data    == BSlice(data, offset, offset + write_length)
         IN  IF fault.call = 1
             THEN [ok   |-> FALSE,
                   disk |-> [dsk EXCEPT ![k] =
                                WriteFailure(dsk[k], write_start, file_data, fault.cut)]]
             ELSE WriteLoop(fm,
                      [dsk EXCEPT ![k] = write_to_file(dsk[k], write_start, file_data)],
                      Tail(affected), piece_start, data, offset + write_length,
                      [fault EXCEPT !.call = IF @ = 0 THEN 0 ELSE @ - 1])

\* FileStorage::write_piece
write_piece(tor, fm, dsk, piece_index, data, fault) ==
    IF verify_piece_hash(tor, piece_index, data) # "true"
    THEN [ok |-> FALSE, disk |-> dsk]
    ELSE LET piece_start == piece_index * tor.piece_length
             piece_end   == Min(piece_start + BLen(data), tor.length)
         IN  WriteLoop(fm, dsk, get_affected_files(fm, piece_start, piece_end),
                       piece_start, data, 0, fault)

\* FileStorage::read_from_file: File::open, seek, read_exact
read_from_file(file, offset, length) ==
    IF ~file.exists THEN [ok |-> FALSE, data |-> <<>>]
    ELSE IF length > 0 /\ offset + length > BLen(file.data) THEN [ok |-> FALSE, data |-> <<>>]
    ELSE [ok |-> TRUE, data |-> BSlice(file.data, offset, offset + length)]

RECURSIVE ReadLoop(_, _, _, _, _)
ReadLoop(fm, dsk, affected, piece_data, offset) ==
    IF affected = <<>> THEN [ok |-> TRUE, data |-> piece_data]
    ELSE LET k           == Head(affected)[1]
             file_start  == Head(affected)[2]
             file_end    == Head(affected)[3]
             read_start  == file_start - fm[k].start_offset
             read_length == file_end - file_start
             got         == read_from_file(dsk[k], read_start, read_length)
         IN  IF ~got.ok THEN [ok |-> FALSE, data |-> <<>>]
             ELSE ReadLoop(fm, dsk, Tail(affected),
                           CopyFromSlice(piece_data, offset, got.data), offset + read_length)

\* the last piece of a metainfo with more hashes than its length needs starts
\* past the end of the content: total_length - piece_start overflows
LastOverflows(tor, piece_index) ==
    /\ piece_index = Len(tor.pieces) - 1
    /\ tor.length < piece_index * tor.piece_length

\* a metainfo without piece hashes: torrent.pieces.len() - 1 overflows
NoHashes(tor) == Len(tor.pieces) = 0

\* the length read_piece computes for a piece.  Without hashes the index of
\* the last piece wraps to usize::MAX, which no piece_index here equals.
ReadPieceLength(tor, piece_index) ==
    IF NoHashes(tor) THEN PerBuild(Panic, tor.piece_length)
    ELSE IF piece_index = Len(tor.pieces) - 1
    THEN USizeSub(tor.length, piece_index * tor.piece_length)
    ELSE tor.piece_length

\* the body of read_piece once the length of the piece is known
ReadRange(tor, fm, dsk, piece_index, piece_length) ==
    LET piece_start == piece_index * tor.piece_length
        piece_end   == piece_start + piece_length
    IN  ReadLoop(fm, dsk, get_affected_files(fm, piece_start, piece_end),
                 Zeros(piece_length), 0)

\* FileStorage::read_piece.  An overflowing length ends the call in a panic:
\* at the subtraction, or without overflow checks at vec![0u8; 2^64 - k]
\* ('capacity overflow').  An index past the last hash reads an empty range.
read_piece(tor, fm, dsk, piece_index) ==
    IF NoHashes(tor)
    THEN PerBuild(Panic, ReadRange(tor, fm, dsk, piece_index, tor.piece_length))
    ELSE IF LastOverflows(tor, piece_index) THEN Panic
    ELSE ReadRange(tor, fm, dsk, piece_index, ReadPieceLength(tor, piece_index))

\* what is_piece_complete makes of the result of read_piece
Verdict_unverified(tor, piece_index, got) ==
    IF got.ok THEN "true" ELSE "false"

\* what is_piece_complete makes of the result of read_piece: the result of
\* verify_piece_hash ("err" for an index past the last hash) when the read
\* succeeded, Ok(false) when it failed
Verdict(tor, piece_index, got) ==
    IF got.ok THEN verify_piece_hash(tor, piece_index, got.data) ELSE "false"

\* FileStorage::is_piece_complete: "true" and "false" for Ok(true) and
\* Ok(false), "err" for Err; a panic of read_piece is not caught
is_piece_complete(tor, fm, dsk, piece_index) ==
    IF NoHashes(tor)
    THEN PerBuild(Panic,
                  Verdict(tor, piece_index, read_piece(tor, fm, dsk, piece_index).wrapping))
    ELSE IF LastOverflows(tor, piece_index) THEN Panic
    ELSE Verdict(tor, piece_index, read_piece(tor, fm, dsk, piece_index))

----------------------------------------------------------------------------
(* Piece state (src/src/net/piece_manager.rs)                              *)

\* HashMap / HashSet helpers
Range(q) == { q[k] : k \in DOMAIN q }

EmptyMap == [x \in {} |-> x]

MapPut(m, k, v) == [x \in (DOMAIN m) \cup {k} |-> IF x = k THEN v ELSE m[x]]

MapDel(m, ks) == [x \in (DOMAIN m) \ ks |-> m[x]]

BlockInfo(piece_index, begin, length) ==
    [piece_index |-> piece_index, begin |-> begin, length |-> length]

\* the block loop with every block given the full block size
DeclaredBlocks_nominal(index, length) ==
    LET num_blocks == (length + BLOCK_SIZE - 1) \div BLOCK_SIZE
    IN  { BlockInfo(index, i * BLOCK_SIZE, BLOCK_SIZE) : i \in 0 .. (num_blocks - 1) }

\* the block descriptors Piece::new and Piece::reset insert into missing_blocks
DeclaredBlocks(index, length) ==
    LET num_blocks == (length + BLOCK_SIZE - 1) \div BLOCK_SIZE
    IN  { BlockInfo(index, i * BLOCK_SIZE,
                    IF i = num_blocks - 1 THEN length - i * BLOCK_SIZE ELSE BLOCK_SIZE)
          : i \in 0 .. (num_blocks - 1) }

\* Piece::new.  The two timing fields download_start / download_complete are
\* written but never read by the code and are left out.
PieceNew(index, length, hash) ==
    [index            |-> index,
     length           |-> length,
     hash             |-> hash,
     state            |-> "Pending",
     blocks           |-> EmptyMap,
     missing_blocks   |-> DeclaredBlocks(index, length),
     requested_blocks |-> EmptyMap]

\* is_complete with the comparison of the sizes made strict
is_complete_strict(p) ==
    p.missing_blocks = {} /\ Cardinality(DOMAIN p.blocks) * BLOCK_SIZE > p.length

\* Piece::is_complete
is_complete(p) ==
    p.missing_blocks = {} /\ Cardinality(DOMAIN p.blocks) * BLOCK_SIZE >= p.length

\* the reaping with >= in place of >
TimedOut_inclusive(p, t) ==
    { b \in DOMAIN p.requested_blocks : t - p.requested_blocks[b] >= REQUEST_TIMEOUT }

\* the requests Piece::get_next_block_request reaps at time t
TimedOut(p, t) == { b \in DOMAIN p.requested_blocks : t - p.requested_blocks[b] > REQUEST_TIMEOUT }

\* Piece::get_next_block_request that still hands out a block when
\* MAX_PENDING_REQUESTS requests are outstanding
piece_get_next_block_request_at_cap(p, t) ==
    LET timed_out == TimedOut(p, t)
        requested == MapDel(p.requested_blocks, timed_out)
        missing   == p.missing_blocks \cup timed_out
        reaped    == [p EXCEPT !.requested_blocks = requested, !.missing_blocks = missing]
    IN  IF missing # {} /\ Cardinality(DOMAIN requested) <= MAX_PENDING_REQUESTS
        THEN { [piece |-> [reaped EXCEPT !.missing_blocks = missing \ {block},
                                         !.requested_blocks = MapPut(requested, block, t)],
                some  |-> TRUE,
                block |-> block] : block \in missing }
        ELSE { [piece |-> reaped, some |-> FALSE, block |-> BlockInfo(p.index, 0, 0)] }

\* Piece::get_next_block_request at time t: the set of possible outcomes, one
\* per block the HashSet iterator may yield first.
piece_get_next_block_request(p, t) ==
    LET timed_out == TimedOut(p, t)
        requested == MapDel(p.requested_blocks, timed_out)
        missing   == p.missing_blocks \cup timed_out
        reaped    == [p EXCEPT !.requested_blocks = requested, !.missing_blocks = missing]
    IN  IF missing # {} /\ Cardinality(DOMAIN requested) < MAX_PENDING_REQUESTS
        THEN { [piece |-> [reaped EXCEPT !.missing_blocks = missing \ {block},
                                         !.requested_blocks = MapPut(requested, block, t)],
                some  |-> TRUE,
                block |-> block] : block \in missing }
        ELSE { [piece |-> reaped, some |-> FALSE, block |-> BlockInfo(p.index, 0, 0)] }

\* block.info.begin + block.data.len() leaves usize
AddOverflows(block) == Wraps(block.info.begin, BLen(block.data))

\* the test `block.info.begin + block.data.len() > self.length` of add_block,
\* on the wrapped sum
PastEnd(p, block) == UGreater(block.info.begin + BLen(block.data), p.length)

\* add_block that stores a block behind the blocks stored before it
add_block_by_arrival(p, block) ==
    IF block.info.piece_index # p.index
    THEN [ok |-> FALSE, piece |-> p, overflow |-> FALSE]
    ELSE IF PastEnd(p, block)
    THEN [ok |-> FALSE, piece |-> p, overflow |-> AddOverflows(block)]
    ELSE LET q == [p EXCEPT !.requested_blocks = MapDel(@, {block.info}),
                            !.blocks = MapPut(@, Cardinality(DOMAIN @) * BLOCK_SIZE, block)]
         IN  [ok |-> TRUE,
              piece |-> IF is_complete(q) THEN [q EXCEPT !.state = "Complete"] ELSE q,
              overflow |-> AddOverflows(block)]

\* add_block that removes the request before it validates the block
add_block_removes_first(p, block) ==
    IF block.info.piece_index # p.index
    THEN [ok |-> FALSE, piece |-> p, overflow |-> FALSE]
    ELSE IF PastEnd(p, block)
    THEN [ok |-> FALSE,
          piece |-> [p EXCEPT !.requested_blocks = MapDel(@, {block.info})],
          overflow |-> AddOverflows(block)]
    ELSE LET q == [p EXCEPT !.requested_blocks = MapDel(@, {block.info}),
                            !.blocks = MapPut(@, block.info.begin, block)]
         IN  [ok |-> TRUE,
              piece |-> IF is_complete(q) THEN [q EXCEPT !.state = "Complete"] ELSE q,
              overflow |-> AddOverflows(block)]

\* Piece::add_block.  `overflow` marks a call whose sum begin + |data| leaves
\* usize: a build with overflow checks panics at the sum and leaves the piece
\* as it was; `ok` and `piece` are then the result of a build without, which
\* compares the wrapped sum and stores the block under its begin.
add_block(p, block) ==
    IF block.info.piece_index # p.index
    THEN [ok |-> FALSE, piece |-> p, overflow |-> FALSE]
    ELSE IF PastEnd(p, block)
    THEN [ok |-> FALSE, piece |-> p, overflow |-> AddOverflows(block)]
    ELSE LET q == [p EXCEPT !.requested_blocks = MapDel(@, {block.info}),
                            !.blocks = MapPut(@, block.info.begin, block)]
         IN  [ok |-> TRUE,
              piece |-> IF is_complete(q) THEN [q EXCEPT !.state = "Complete"] ELSE q,
              overflow |-> AddOverflows(block)]

\* the buffers the copy loop of assemble_piece can produce, one per iteration
\* order of the HashMap (they differ only when blocks overlap); ok = FALSE
\* marks a block that ends past the piece.  At a block whose end leaves usize
\* the loop panics: at the sum with overflow checks, without them at the
\* slice piece_data[begin..end], whose wrapped end lies before its begin.
RECURSIVE AssembleFrom(_, _, _)
AssembleFrom(p, piece_data, begins) ==
    IF begins = {} THEN {[ok |-> TRUE, data |-> piece_data]}
    ELSE UNION { LET end == begin + BLen(p.blocks[begin].data)
                 IN  IF Wraps(begin, BLen(p.blocks[begin].data))
                     THEN {Panic}
                     ELSE IF UGreater(end, p.length)
                     THEN {[ok |-> FALSE, data |-> <<>>]}
                     ELSE AssembleFrom(p, CopyFromSlice(piece_data, begin, p.blocks[begin].data),
                                       begins \ {begin})
                 : begin \in begins }

\* Piece::assemble_piece: the set of possible results
assemble_piece(p) ==
    IF ~is_complete(p) THEN {[ok |-> FALSE, data |-> <<>>]}
    ELSE AssembleFrom(p, Zeros(p.length), DOMAIN p.blocks)

\* Piece::verify_hash
verify_hash(p, data) == Sha1(data) = p.hash

\* reset without the clearing of the received blocks
reset_keeps_blocks(p) ==
    [p EXCEPT !.state = "Pending",
              !.requested_blocks = EmptyMap,
              !.missing_blocks = DeclaredBlocks(p.index, p.length)]

\* reset without the clearing of the requested map
reset_keeps_requested(p) ==
    [p EXCEPT !.state = "Pending",
              !.blocks = EmptyMap,
              !.missing_blocks = DeclaredBlocks(p.index, p.length)]

\* Piece::reset
reset(p) ==
    [p EXCEPT !.state = "Pending",
              !.blocks = EmptyMap,
              !.requested_blocks = EmptyMap,
              !.missing_blocks = DeclaredBlocks(p.index, p.length)]

----------------------------------------------------------------------------
(* Block coordinator (src/src/net/block_manager.rs)                        *)

\* every piece given the nominal piece length
PieceLength_nominal(tor, index) == tor.piece_length

\* the length BlockManager::new gives the piece at index
PieceLength(tor, index) ==
    IF index = Len(tor.pieces) - 1
    THEN USizeSub(tor.length, index * tor.piece_length)
    ELSE tor.piece_length

PieceIndices(tor) == 0 .. (Len(tor.pieces) - 1)

\* the loop of rebuild_download_queue from index on;
\* is_piece_complete(index).unwrap_or(false) is the comparison with "true"
RECURSIVE RebuildFrom(_, _, _, _, _)
RebuildFrom(tor, fm, dsk, m, index) ==
    IF index >= Len(tor.pieces) THEN m
    ELSE IF is_piece_complete(tor, fm, dsk, index) = "true"
    THEN RebuildFrom(tor, fm, dsk,
             [m EXCEPT !.pieces[index].state = "Verified",
                       !.stats.verified_pieces = @ + 1,
                       !.stats.downloaded_bytes = @ + m.pieces[index].length],
             index + 1)
    ELSE RebuildFrom(tor, fm, dsk,
             [m EXCEPT !.download_queue = Append(@, index)], index + 1)

\* BlockManager::rebuild_download_queue
rebuild_download_queue(tor, fm, dsk, m) ==
    RebuildFrom(tor, fm, dsk, [m EXCEPT !.download_queue = <<>>], 0)

\* BlockManager::new.  DownloadStats.download_start (never set) and last_update
\* (written, never read) are left out.  When the length of the last piece
\* overflows no manager is built: the subtraction panics, or without overflow
\* checks the read_piece of the scan does.
new(tor, fm, dsk) ==
    IF \E index \in PieceIndices(tor) : LastOverflows(tor, index) THEN Panic
    ELSE rebuild_download_queue(tor, fm, dsk,
        [pieces |-> [index \in PieceIndices(tor) |->
                        PieceNew(index, PieceLength(tor, index), tor.pieces[index + 1])],
         download_queue |-> <<>>,
         stats |-> [total_pieces     |-> Len(tor.pieces),
                    completed_pieces |-> 0,
                    verified_pieces  |-> 0,
                    failed_pieces    |-> 0,
                    total_bytes      |-> tor.length,
                    downloaded_bytes |-> 0]])

\* get_next_piece_to_download taking the youngest entry (pop_back)
get_next_piece_to_download_lifo(m) ==
    IF m.download_queue = <<>>
    THEN [m |-> m, some |-> FALSE, index |-> 0]
    ELSE [m |-> [m EXCEPT !.download_queue = SubSeq(@, 1, Len(@) - 1)], some |-> TRUE,
          index |-> m.download_queue[Len(m.download_queue)]]

\* BlockManager::get_next_piece_to_download
get_next_piece_to_download(m) ==
    IF m.download_queue = <<>>
    THEN [m |-> m, some |-> FALSE, index |-> 0]
    ELSE [m |-> [m EXCEPT !.download_queue = Tail(@)], some |-> TRUE,
          index |-> Head(m.download_queue)]

\* every requested piece set InProgress, whatever its state
StateOnRequest_always(state) == "InProgress"

\* the state BlockManager::get_next_block_request gives a piece before it
\* delegates to the piece
StateOnRequest(state) == IF state = "Pending" THEN "InProgress" ELSE state

\* BlockManager::get_next_block_request at time t: the set of possible outcomes
get_next_block_request(m, piece_index, t) ==
    IF piece_index >= Cardinality(DOMAIN m.pieces)
    THEN { [m |-> m, some |-> FALSE, block |-> BlockInfo(piece_index, 0, 0), reaped |-> 0] }
    ELSE LET p == [m.pieces[piece_index] EXCEPT !.state = StateOnRequest(@)]
         IN  { [m      |-> [m EXCEPT !.pieces[piece_index] = out.piece],
                some   |-> out.some,
                block  |-> out.block,
                reaped |-> Cardinality(TimedOut(p, t))]
               : out \in piece_get_next_block_request(p, t) }

\* the hash-mismatch branch without the reset of the piece
OnHashMismatch_no_reset(m, piece_index) ==
    [m EXCEPT !.stats.failed_pieces = @ + 1,
              !.pieces[piece_index].state = "Failed",
              !.download_queue = Append(@, piece_index)]

\* what verify_and_write_piece does when verify_hash rejects the assembled data
OnHashMismatch(m, piece_index) ==
    [m EXCEPT !.stats.failed_pieces = @ + 1,
              !.pieces[piece_index] = reset([@ EXCEPT !.state = "Failed"]),
              !.download_queue = Append(@, piece_index)]

\* what verify_and_write_piece does after a successful write
OnWritten(m, piece_index) ==
    [m EXCEPT !.pieces[piece_index].state = "Verified",
              !.stats.completed_pieces = @ + 1,
              !.stats.verified_pieces = @ + 1]

\* a write error handled like a hash mismatch
OnWriteError_as_mismatch(m, piece_index) ==
    [m EXCEPT !.stats.failed_pieces = @ + 1,
              !.pieces[piece_index] = reset([@ EXCEPT !.state = "Failed"]),
              !.download_queue = Append(@, piece_index)]

\* what verify_and_write_piece does when write_piece fails: the ? operator
\* returns the error before any field is touched
OnWriteError(m, piece_index) == m

\* no octets: the value of `written` in an outcome that committed nothing
NoData == <<Run(0, 0)>>

\* what a coordinator call leaves behind: the manager, the disk, the result
\* ("ok", "err" or "panic") and the piece data it committed, if any
Outcome(m, dsk, ret, written) == [m |-> m, disk |-> dsk, ret |-> ret, written |-> written]

\* the hash gate of verify_and_write_piece
HashGate(p, data) == verify_hash(p, data)

\* BlockManager::verify_and_write_piece: the set of possible outcomes (one per
\* result of assemble_piece).  The index is not checked: one that names no
\* piece panics on self.pieces[piece_index].
verify_and_write_piece(tor, fm, dsk, m, piece_index, fault) ==
    IF piece_index \notin DOMAIN m.pieces
    THEN { Outcome(m, dsk, "panic", NoData) }
    ELSE
    LET p == m.pieces[piece_index]
    IN  IF p.state # "Complete"
        THEN { Outcome(m, dsk, "err", NoData) }
        ELSE { IF a = Panic THEN Outcome(m, dsk, "panic", NoData)
               ELSE IF ~a.ok THEN Outcome(m, dsk, "err", NoData)
               ELSE IF ~HashGate(p, a.data)
               THEN Outcome(OnHashMismatch(m, piece_index), dsk, "err", NoData)
               ELSE LET w == write_piece(tor, fm, dsk, piece_index, a.data, fault)
                    IN  IF ~w.ok
                        THEN Outcome(OnWriteError(m, piece_index), w.disk, "err", NoData)
                        ELSE Outcome(OnWritten(m, piece_index), w.disk, "ok", a.data)
               : a \in assemble_piece(p) }

\* the bound check at the head of handle_block_received
IndexRejected(m, piece_index) == piece_index > Cardinality(DOMAIN m.pieces)

\* the manager holds a block stored by an add_block whose sum wrapped: the
\* build has no overflow checks
Wrapped(m) ==
    \E index \in DOMAIN m.pieces : \E begin \in DOMAIN m.pieces[index].blocks : begin < 0

\* handle_block_received after add_block returned
AfterAdd(tor, fm, dsk, m, piece_index, added, fault) ==
    IF ~added.ok
    THEN { Outcome([m EXCEPT !.pieces[piece_index] = added.piece], dsk, "err", NoData) }
    ELSE LET m1 == [m EXCEPT
                      !.pieces[piece_index] = added.piece,
                      !.stats.downloaded_bytes =
                          Cardinality(DOMAIN added.piece.blocks) * BLOCK_SIZE]
         IN  IF added.piece.state = "Complete"
             THEN verify_and_write_piece(tor, fm, dsk, m1, piece_index, fault)
             ELSE { Outcome(m1, dsk, "ok", NoData) }

\* BlockManager::handle_block_received: the set of possible outcomes.  An index
\* equal to the number of pieces passes the bound check and panics on
\* self.pieces[piece_index].  When the sum of add_block overflows the call
\* panics there in a build with overflow checks and goes on with the wrapped
\* sum in a build without; a manager that holds a wrapped block already is of
\* the second kind.
handle_block_received(tor, fm, dsk, m, block, fault) ==
    LET piece_index == block.info.piece_index
    IN  IF IndexRejected(m, piece_index)
        THEN { Outcome(m, dsk, "err", NoData) }
        ELSE IF piece_index \notin DOMAIN m.pieces
        THEN { Outcome(m, dsk, "panic", NoData) }
        ELSE LET added == add_block(m.pieces[piece_index], block)
             IN  (IF added.overflow /\ ~Wrapped(m)
                  THEN { Outcome(m, dsk, "panic", NoData) } ELSE {})
                 \cup AfterAdd(tor, fm, dsk, m, piece_index, added, fault)

\* BlockManager::get_piece_state: "None" for an index that names no piece
get_piece_state(m, piece_index) ==
    IF piece_index >= Cardinality(DOMAIN m.pieces) THEN "None"
    ELSE m.pieces[piece_index].state

is_download_complete(m) == m.stats.verified_pieces = m.stats.total_pieces

has_piece(m, piece_index) ==
    piece_index \in DOMAIN m.pieces /\ m.pieces[piece_index].state = "Verified"

get_missing_piece_count(m) == USizeSub(m.stats.total_pieces, m.stats.verified_pieces)

----------------------------------------------------------------------------
(* The environment: torrents, their true content, what the download        *)
(* directory holds, and the blocks peers send                              *)

\* a content of `length` octets whose value changes every `grain` octets
RECURSIVE ContentFrom(_, _, _)
ContentFrom(length, grain, k) ==
    IF length <= 0 THEN <<>>
    ELSE <<Run(Min(grain, length), 1 + (k % 200))>> \o ContentFrom(length - grain, grain, k + 1)

Content(length, grain) == Norm(ContentFrom(length, grain, 0))

NumPieces(length, piece_length) == (length + piece_length - 1) \div piece_length

\* a metainfo over the content pay: the hash vector holds the digest of each piece
MkTorrent(piece_length, multi, files, length, pay) ==
    [piece_length |-> piece_length,
     length       |-> length,
     multi        |-> multi,
     files        |-> files,
     pieces       |-> [i \in 1 .. NumPieces(length, piece_length) |->
                          Sha1(BSlice(pay, (i - 1) * piece_length,
                                      Min(i * piece_length, length)))]]

MkWorld(piece_length, multi, files, length, grain) ==
    [torrent |-> MkTorrent(piece_length, multi, files, length, Content(length, grain)),
     payload |-> Content(length, grain)]

\* the true octets of a piece
PieceData(tor, pay, index) ==
    BSlice(pay, index * tor.piece_length, Min((index + 1) * tor.piece_length, tor.length))

NoFile == [exists |-> FALSE, data |-> <<>>]

EmptyDisk(fm) == [k \in DOMAIN fm |-> NoFile]

\* a download directory left by an earlier session that stored exactly the
\* pieces of S, each octet at its place in its file (holes read as zeros)
RECURSIVE StoreAt(_, _, _, _, _)
StoreAt(fm, dsk, k, from, data) ==
    IF k > Len(fm) THEN dsk
    ELSE LET file_start == fm[k].start_offset
             file_end   == fm[k].start_offset + fm[k].length
             lo         == Max(from, file_start)
             hi         == Min(from + BLen(data), file_end)
         IN  IF lo < hi
             THEN StoreAt(fm, [dsk EXCEPT ![k] =
                                  write_to_file(dsk[k], lo - file_start,
                                                BSlice(data, lo - from, hi - from))],
                          k + 1, from, data)
             ELSE StoreAt(fm, dsk, k + 1, from, data)

\* files created at their full size and not yet written: they read as zeros
Preallocated(fm) == [k \in DOMAIN fm |-> [exists |-> TRUE, data |-> Zeros(fm[k].length)]]

RECURSIVE DiskWith(_, _, _, _, _)
DiskWith(tor, pay, fm, prealloc, S) ==
    IF S = {} THEN (IF prealloc THEN Preallocated(fm) ELSE EmptyDisk(fm))
    ELSE LET index == CHOOSE i \in S : \A j \in S : i <= j
         IN  StoreAt(fm, DiskWith(tor, pay, fm, prealloc, S \ {index}), 1,
                     index * tor.piece_length, PieceData(tor, pay, index))

\* the download directories a session may start from
StartCases(tor) == [prealloc : BOOLEAN, have : SUBSET PieceIndices(tor)]

StartDisk(w, c) ==
    DiskWith(w.torrent, w.payload, build_file_map(w.torrent), c.prealloc, c.have)

\* the blocks a peer may send for a declared block: the true octets, or as
\* many octets of another value
GoodBlock(tor, pay, info) ==
    [info |-> info,
     data |-> BSlice(pay, info.piece_index * tor.piece_length + info.begin,
                     info.piece_index * tor.piece_length + info.begin + info.length)]

BadBlock(info) == [info |-> info, data |-> <<Run(info.length, 255)>>]

AllDeclared(tor) ==
    UNION { DeclaredBlocks(index, PieceLength(tor, index)) : index \in PieceIndices(tor) }

----------------------------------------------------------------------------
(* Bounds of the exploration                                               *)

\* the clock reads at most this
MaxTime == 31

\* hash failures explored
MaxFailed == 1

\* commits explored beyond one per piece
MaxRecommit == 1

\* corrupt answers the peers of the download driver may give
MaxCorrupt == 1

\* answers that may be outstanding for one block
MaxInflight == 2

\* where a failing write_to_file stops: at the open (-1), or after 4096
\* octets (all but the last octet when the data is shorter)
FaultCuts == {0 - 1, 4096}

----------------------------------------------------------------------------
(* The coordinator under arbitrary callers and peers                       *)

Mgr == [pieces |-> pieces, download_queue |-> download_queue, stats |-> stats]

\* a single-file torrent of one piece of two blocks, and a two-file torrent of
\* two pieces of one block each whose first piece spans both files
CoordWorlds == { MkWorld(20000, FALSE, <<>>, 20000, 5000),
                 MkWorld(10000, TRUE, <<6000, 9000>>, 15000, 2500) }

\* what the download directory holds at start-up: nothing, or pre-allocated
\* files with the last piece stored
CoordStarts(tor) ==
    { [prealloc |-> FALSE, have |-> {}],
      [prealloc |-> TRUE,  have |-> {Len(tor.pieces) - 1}] }

Alive == ~panicked

NoProbe == [start |-> 0, end |-> 0, affected |-> <<>>]

\* the codec has not been called
NotCalled == [call |-> "none"]

\* the threads that may call the coordinator
Threads == {1, 2}

\* a thread that has made no call yet, or is back from a call whose result
\* is not kept
NoCall == [at |-> "idle", op |-> "none"]

\* no mutex is held
NoHolders(tor) == [storage |-> {}, piece |-> [index \in PieceIndices(tor) |-> {}]]

WithinBounds(m) ==
    /\ m.stats.failed_pieces <= MaxFailed
    /\ m.stats.verified_pieces <= m.stats.total_pieces + MaxRecommit

\* construction: FileStorage::from, then BlockManager::new
Construct(w, dsk) ==
    LET fm == check_existing_files(build_file_map(w.torrent), dsk)
        m  == new(w.torrent, fm, dsk)
    IN  /\ torrent = w.torrent
        /\ payload = w.payload
        /\ file_map = fm
        /\ disk = dsk
        /\ pieces = m.pieces
        /\ download_queue = m.download_queue
        /\ stats = m.stats
        /\ now = 0
        /\ panicked = FALSE
        /\ probe = NoProbe
        /\ metainfo = <<>>
        /\ loaded = NotCalled
        /\ calls = [thread \in Threads |-> NoCall]
        /\ holders = NoHolders(w.torrent)
        /\ held = {}
        /\ inflight = EmptyMap
        /\ committed = [index \in PieceIndices(w.torrent) |->
                           IF m.pieces[index].state = "Verified"
                           THEN read_piece(w.torrent, fm, dsk, index).data
                           ELSE NoData]

Init ==
    \E w \in CoordWorlds :
        \E c \in CoordStarts(w.torrent) :
            Construct(w, StartDisk(w, c)) /\ corrupt_left = 0

\* a block of one octet at begin usize::MAX, whose end wraps to 0
WrappingBlock == BadBlock(BlockInfo(0, 0 - 1, 1))

\* the blocks peers may deliver: a right or a wrong content for every declared
\* block, a block that ends past its piece, one whose end leaves usize, and
\* blocks of pieces that do not exist
PeerBlocks ==
    { GoodBlock(torrent, payload, info) : info \in AllDeclared(torrent) }
    \cup { BadBlock(info) : info \in AllDeclared(torrent) }
    \cup { BadBlock(BlockInfo(0, PieceLength(torrent, 0) - 1, 2)) }
    \cup { WrappingBlock }
    \cup { BadBlock(BlockInfo(Len(torrent.pieces), 0, 1)),
           BadBlock(BlockInfo(Len(torrent.pieces) + 1, 0, 1)) }

\* the faults the file system may put into a write_piece: none, or an I/O
\* error at its first, second, ... write_to_file, at the open or after part of
\* the data was written
WriteFaults ==
    {NoFault} \cup [call : 1 .. Len(file_map), cut : FaultCuts]

Install(m, dsk) ==
    /\ pieces' = m.pieces
    /\ download_queue' = m.download_queue
    /\ stats' = m.stats
    /\ disk' = dsk

\* the history of commits after a call that left the manager m and committed
\* `written` for piece_index (NoData: committed nothing)
Record(m, piece_index, written) ==
    committed' = [index \in DOMAIN m.pieces |->
                     IF m.pieces[index].state # "Verified" THEN NoData
                     ELSE IF index = piece_index /\ written # NoData THEN written
                     ELSE committed[index]]

\* time passes
Tick(d) ==
    /\ Alive
    /\ now + d <= MaxTime
    /\ now' = now + d
    /\ UNCHANGED <<fixedVars, disk, pieces, download_queue, stats, panicked, committed, probe,
                   codecVars, threadVars, driverVars>>

\* next_piece
NextPiece ==
    /\ Alive
    /\ LET out == get_next_piece_to_download(Mgr)
       IN  Install(out.m, disk)
    /\ UNCHANGED <<fixedVars, now, panicked, committed, probe, codecVars, threadVars, driverVars>>

\* next_block_request(piece_index)
NextBlockRequest(piece_index) ==
    /\ Alive
    /\ \E out \in get_next_block_request(Mgr, piece_index, now) :
           Install(out.m, disk)
    /\ UNCHANGED <<fixedVars, now, panicked, committed, probe, codecVars, threadVars, driverVars>>

\* on_block(block)
OnBlock(block, fault) ==
    /\ Alive
    /\ \E out \in handle_block_received(torrent, file_map, disk, Mgr, block, fault) :
           /\ WithinBounds(out.m)
           /\ Install(out.m, out.disk)
           /\ Record(out.m, block.info.piece_index, out.written)
           /\ panicked' = (out.ret = "panic")
    /\ UNCHANGED <<fixedVars, now, probe, codecVars, threadVars, driverVars>>

\* a direct call of verify_and_write_piece
VerifyAndWrite(piece_index, fault) ==
    /\ Alive
    /\ \E out \in verify_and_write_piece(torrent, file_map, disk, Mgr, piece_index, fault) :
           /\ WithinBounds(out.m)
           /\ Install(out.m, out.disk)
           /\ Record(out.m, piece_index, out.written)
           /\ panicked' = (out.ret = "panic")
    /\ UNCHANGED <<fixedVars, now, probe, codecVars, threadVars, driverVars>>

\* the faults behind which the exploration goes on: all of them for a torrent
\* of one piece; for a torrent of more pieces the failures at the open (the
\* data that failing writes leave half written multiply with the pieces)
ExploredFaults ==
    IF Len(torrent.pieces) = 1 THEN WriteFaults
    ELSE { fault \in WriteFaults : fault.cut < 0 }

\* the faults that can show in an on_block: a block that does not complete its
\* piece reaches no write_piece
BlockFaults(block) ==
    LET piece_index == block.info.piece_index
    IN  IF /\ piece_index \in DOMAIN pieces
           /\ add_block(pieces[piece_index], block).piece.state = "Complete"
        THEN ExploredFaults ELSE {NoFault}

\* the faults that can show in a verify_and_write_piece
PieceFaults(piece_index) ==
    IF piece_index \in DOMAIN pieces /\ pieces[piece_index].state = "Complete"
    THEN ExploredFaults ELSE {NoFault}

\* the blocks behind which the exploration goes on: all of them for a
\* single-file torrent; for a torrent of several files all but the block whose
\* end leaves usize (a piece that holds it never leaves the manager again and
\* doubles the states of the others)
ExploredBlocks ==
    IF torrent.multi THEN PeerBlocks \ {WrappingBlock} ELSE PeerBlocks

\* a call of rebuild_download_queue on the live manager
Rebuild ==
    /\ Alive
    /\ LET m == rebuild_download_queue(torrent, file_map, disk, Mgr)
       IN  /\ WithinBounds(m)
           /\ Install(m, disk)
           /\ committed' = [index \in DOMAIN m.pieces |->
                  IF index \notin Range(m.download_queue)
                  THEN read_piece(torrent, file_map, disk, index).data
                  ELSE IF m.pieces[index].state = "Verified" THEN committed[index]
                  ELSE NoData]
    /\ UNCHANGED <<fixedVars, now, panicked, probe, codecVars, threadVars, driverVars>>

\* a tick carries the clock past the request timeout
TickSteps == {REQUEST_TIMEOUT + 1}

Next ==
    \/ Rebuild
    \/ \E d \in TickSteps : Tick(d)
    \/ NextPiece
    \/ \E piece_index \in 0 .. Len(torrent.pieces) : NextBlockRequest(piece_index)
    \/ \E block \in ExploredBlocks : \E fault \in BlockFaults(block) : OnBlock(block, fault)
    \/ \E piece_index \in 0 .. Len(torrent.pieces) :
           \E fault \in PieceFaults(piece_index) : VerifyAndWrite(piece_index, fault)

Spec == Init /\ [][Next]_vars

\* the coordinator over the single-file torrent alone, whose piece has two
\* blocks: the claims on one piece are checked here
SingleWorlds == { MkWorld(20000, FALSE, <<>>, 20000, 5000) }

InitSingle ==
    \E w \in SingleWorlds :
        \E c \in CoordStarts(w.torrent) :
            Construct(w, StartDisk(w, c)) /\ corrupt_left = 0

SpecSingle == InitSingle /\ [][Next]_vars

----------------------------------------------------------------------------
(* The storage under arbitrary writes, and sessions restarted over it      *)

\* the single-file and the multi-file layout of small size: pieces that start
\* inside a file, span files, and a shorter last piece
StorageWorlds == { MkWorld(40, FALSE, <<>>, 100, 10),
                   MkWorld(16, TRUE, <<10, 25, 5>>, 40, 4) }

InitStorage ==
    \E w \in StorageWorlds :
        \E c \in StartCases(w.torrent) :
            Construct(w, StartDisk(w, c)) /\ corrupt_left = 0

\* the octets a caller may pass to write_piece: the true octets of any piece,
\* or octets of another value
StorageData ==
    { PieceData(torrent, payload, index) : index \in PieceIndices(torrent) }
    \cup { <<Run(torrent.piece_length, 255)>> }

\* write_piece(piece_index, data)
WritePiece(piece_index, data, fault) ==
    /\ disk' = write_piece(torrent, file_map, disk, piece_index, data, fault).disk
    /\ UNCHANGED <<fixedVars, pieces, download_queue, stats, now, panicked, committed, probe,
                   codecVars, threadVars, driverVars>>

\* a new session over the download directory as it is: FileStorage::from, then
\* BlockManager::new
Restart ==
    LET fm == check_existing_files(build_file_map(torrent), disk)
        m  == new(torrent, fm, disk)
    IN  /\ file_map' = fm
        /\ pieces' = m.pieces
        /\ download_queue' = m.download_queue
        /\ stats' = m.stats
        /\ now' = 0
        /\ panicked' = FALSE
        /\ committed' = [index \in PieceIndices(torrent) |->
                            IF m.pieces[index].state = "Verified"
                            THEN read_piece(torrent, fm, disk, index).data
                            ELSE NoData]
        /\ UNCHANGED <<torrent, payload, disk, probe, codecVars, threadVars, driverVars>>

\* a direct call of check_existing_files on the storage
CheckExistingFiles ==
    /\ file_map' = check_existing_files(file_map, disk)
    /\ UNCHANGED <<torrent, payload, disk, pieces, download_queue, stats, now, panicked,
                   committed, probe, codecVars, threadVars, driverVars>>

\* the offsets and octets of the direct calls of write_to_file: inside a file
\* or past its end, no octets and a few
DirectOffsets == {5}

\* the files written directly
DirectFiles == {1}

DirectData == { <<>>, <<Run(3, 255)>> }

\* the directory holds octets of a direct call, or a file without octets
DirectlyWritten ==
    \E k \in DOMAIN disk :
        \/ disk[k].exists /\ disk[k].data = <<>>
        \/ \E j \in DOMAIN disk[k].data : disk[k].data[j].v = 255

\* a direct call of write_to_file on the k-th file, which may fail; one such
\* call is explored per directory
WriteToFile(k, offset, data, fault) ==
    /\ ~DirectlyWritten
    /\ disk' = [disk EXCEPT ![k] =
                    IF fault.call = 0
                    THEN write_to_file(disk[k], offset, data)
                    ELSE WriteFailure(disk[k], offset, data, fault.cut)]
    /\ UNCHANGED <<fixedVars, pieces, download_queue, stats, now, panicked, committed, probe,
                   codecVars, threadVars, driverVars>>

NextStorage ==
    \/ CheckExistingFiles
    \/ \E k \in DirectFiles :
           \E offset \in DirectOffsets :
               \E data \in DirectData :
                   \E fault \in {NoFault} \cup [call : {1}, cut : FaultCuts] :
                       WriteToFile(k, offset, data, fault)
    \/ \E piece_index \in 0 .. Len(torrent.pieces) :
           \E data \in StorageData :
               \E fault \in WriteFaults : WritePiece(piece_index, data, fault)
    \/ Restart

SpecStorage == InitStorage /\ [][NextStorage]_vars

----------------------------------------------------------------------------
(* The file map queried for every range                                    *)

\* layouts with files smaller than, equal to and larger than the ranges asked
\* for, and with a file of no octets
MapWorlds == { MkWorld(8, FALSE, <<>>, 20, 4),
               MkWorld(16, TRUE, <<10, 25, 5>>, 40, 4),
               MkWorld(8, TRUE, <<8, 0, 8>>, 16, 4),
               MkWorld(4, TRUE, <<1, 1, 3, 2>>, 7, 1) }

InitMap ==
    \E w \in MapWorlds :
        Construct(w, EmptyDisk(build_file_map(w.torrent))) /\ corrupt_left = 0

\* get_affected_files(start, end)
Probe(start, end) ==
    /\ probe' = [start |-> start, end |-> end,
                 affected |-> get_affected_files(file_map, start, end)]
    /\ UNCHANGED <<fixedVars, disk, pieces, download_queue, stats, now, panicked, committed,
                   driverVars, codecVars, threadVars>>

NextMap ==
    \E start \in 0 .. (torrent.length - 1) :
        \E end \in (start + 1) .. torrent.length : Probe(start, end)

SpecMap == InitMap /\ [][NextMap]_vars

----------------------------------------------------------------------------
(* A download in which every block is requested and answered in time with  *)
(* its true octets                                                         *)

\* three pieces over three files, the last piece shorter; and two pieces whose
\* lengths are multiples of the block size
FullWorlds == { MkWorld(20000, TRUE, <<15000, 20000, 15000>>, 50000, 5000),
                MkWorld(32768, FALSE, <<>>, 49152, 16384) }

InitFull ==
    \E w \in FullWorlds :
        Construct(w, EmptyDisk(build_file_map(w.torrent))) /\ corrupt_left = 0

\* on_block with the true octets of a block whose request is outstanding
Deliver(info) ==
    /\ info.piece_index \in DOMAIN pieces
    /\ info \in DOMAIN pieces[info.piece_index].requested_blocks
    /\ OnBlock(GoodBlock(torrent, payload, info), NoFault)

NextFull ==
    \/ \E d \in TickSteps : Tick(d)
    \/ NextPiece
    \/ \E piece_index \in PieceIndices(torrent) : NextBlockRequest(piece_index)
    \/ \E info \in AllDeclared(torrent) : Deliver(info)

SpecFull == InitFull /\ [][NextFull]_vars

----------------------------------------------------------------------------
(* The download driver and its peers                                       *)
(*                                                                         *)
(* The repository holds no driver that feeds the coordinator with data of  *)
(* peers: simulate_download_step of the command line tool answers every    *)
(* request with zeros and is called from nowhere.  The driver, the peers   *)
(* and their fairness below are the environment the specification assumes  *)
(* for the coordinator: a driver that keeps taking pieces and asking for   *)
(* their blocks, peers that answer every request in the end, with correct  *)
(* data but for finitely many answers, and writes that succeed.  The       *)
(* coordinator operations they call are the ones translated above.         *)

LiveWorlds == CoordWorlds

InitLive ==
    \E w \in LiveWorlds :
        \E c \in CoordStarts(w.torrent) :
            Construct(w, StartDisk(w, c)) /\ corrupt_left = MaxCorrupt

\* the driver takes the next piece from next_piece
Take ==
    /\ held = {}
    /\ LET out == get_next_piece_to_download(Mgr)
       IN  /\ out.some
           /\ Install(out.m, disk)
           /\ held' = {out.index}
    /\ UNCHANGED <<fixedVars, now, panicked, committed, probe, codecVars, threadVars, inflight,
                   corrupt_left>>

\* the driver is done with a piece that is Verified
Release ==
    /\ \E index \in held : pieces[index].state = "Verified"
    /\ held' = {}
    /\ UNCHANGED <<fixedVars, disk, pieces, download_queue, stats, now, panicked, committed,
                   probe, codecVars, threadVars, inflight, corrupt_left>>

\* one more answer is outstanding for the block
Sent(info) ==
    MapPut(inflight, info,
           IF info \in DOMAIN inflight THEN Min(inflight[info] + 1, MaxInflight) ELSE 1)

\* the driver asks next_block_request for a block of the piece it works on and
\* sends the request to a peer
Ask ==
    /\ \E index \in held :
           \E out \in get_next_block_request(Mgr, index, now) :
               /\ Install(out.m, disk)
               /\ inflight' = IF out.some THEN Sent(out.block) ELSE inflight
    /\ UNCHANGED <<fixedVars, now, panicked, committed, probe, codecVars, threadVars, held,
                   corrupt_left>>

\* one answer less is outstanding for the block
Answered(info) ==
    IF inflight[info] = 1 THEN MapDel(inflight, {info})
    ELSE MapPut(inflight, info, inflight[info] - 1)

\* a peer answers a request: with the true octets, or, as long as corrupt
\* answers are left, with other octets; the storage write succeeds.  On an
\* error of on_block the driver gives up the piece and goes back to next_piece.
Answer(info) ==
    /\ info \in DOMAIN inflight
    /\ \E corrupt \in BOOLEAN :
           /\ corrupt => corrupt_left > 0
           /\ corrupt_left' = IF corrupt THEN corrupt_left - 1 ELSE corrupt_left
           /\ \E out \in handle_block_received(torrent, file_map, disk, Mgr,
                              IF corrupt THEN BadBlock(info)
                              ELSE GoodBlock(torrent, payload, info), NoFault) :
                  /\ Install(out.m, out.disk)
                  /\ Record(out.m, info.piece_index, out.written)
                  /\ held' = IF out.ret = "ok" THEN held ELSE held \ {info.piece_index}
    /\ inflight' = Answered(info)
    /\ UNCHANGED <<fixedVars, now, panicked, probe, codecVars, threadVars>>

\* every block of the torrents downloaded
LiveBlocks == UNION { AllDeclared(w.torrent) : w \in LiveWorlds }

\* the piece with the instant of every request moved back by d, none before 0
MovedBack(p, d) ==
    [p EXCEPT !.requested_blocks = [b \in DOMAIN @ |-> Max(@[b] - d, 0)]]

\* time passes for the driver, without an end.  Of the instant of a request
\* only its age counts, and of its age only whether it is past
\* REQUEST_TIMEOUT, so the clock is kept within MaxTime: once it stands past
\* the timeout and d more seconds would carry it beyond MaxTime, the clock
\* keeps its reading and the instant of every request moves back by d
\* instead.  An instant that would fall before 0 belongs to a request older
\* than the reading of the clock, thus past the timeout, and stays at 0.
Elapse(d) ==
    \/ Tick(d)
    \/ /\ Alive
       /\ now + d > MaxTime
       /\ now > REQUEST_TIMEOUT
       /\ pieces' = [index \in DOMAIN pieces |-> MovedBack(pieces[index], d)]
       /\ UNCHANGED <<fixedVars, disk, download_queue, stats, now, panicked, committed,
                      probe, codecVars, threadVars, driverVars>>

NextLive ==
    \/ \E d \in TickSteps : Elapse(d)
    \/ Take
    \/ Release
    \/ Ask
    \/ \E info \in LiveBlocks : Answer(info)

\* an answer to a request is possible exactly while one is outstanding
AnswerEnabled(info) == info \in DOMAIN inflight

\* the driver keeps going, and every request is answered in the end: weak
\* fairness of Answer(info), written out with its enabling condition
Fairness ==
    /\ WF_vars(Take)
    /\ WF_vars(Release)
    /\ WF_vars(Ask)
    /\ \A info \in LiveBlocks :
           []<>(~AnswerEnabled(info)) \/ []<><<Answer(info)>>_vars

SpecLive == InitLive /\ [][NextLive]_vars /\ Fairness

----------------------------------------------------------------------------
(* Properties of the coordinator                                           *)


\* C1 - Hash-gated commit: a piece is Verified only if the digest of the data
\* that was assembled for it (or, for a piece marked by the start-up scan, of
\* the octets read back from storage) equals the expected hash of the piece,
\* which is the hash the metainfo lists for it.
HashGatedCommit ==
    \A index \in DOMAIN pieces :
        pieces[index].state = "Verified" =>
            /\ committed[index] # NoData
            /\ Sha1(committed[index]) = pieces[index].hash
            /\ pieces[index].hash = torrent.pieces[index + 1]

\* a piece marked Verified by the scan next to a piece committed in this session
HashGatedCommitSeen ==
    \E i, j \in DOMAIN pieces :
        /\ pieces[i].state = "Verified" /\ pieces[i].blocks = EmptyMap
        /\ pieces[j].state = "Verified" /\ is_complete(pieces[j])
        /\ stats.completed_pieces > 0

\* C2 - Verified is terminal: no step of the coordinator changes the state of a
\* piece that is Verified.
VerifiedIsTerminal ==
    [][\A index \in DOMAIN pieces :
          pieces[index].state = "Verified" => pieces'[index].state = "Verified"]_vars

\* C3 - Write-then-read identity: for every valid piece index and data of the
\* piece's length whose digest is the expected one, a write_piece that succeeds
\* is followed by a read_piece of the same index that returns exactly the data.
WriteThenRead ==
    [][\A piece_index \in PieceIndices(torrent) :
          \A data \in StorageData :
              (/\ write_piece(torrent, file_map, disk, piece_index, data, NoFault).ok
               /\ WritePiece(piece_index, data, NoFault))
              => read_piece(torrent, file_map, disk', piece_index)
                     = [ok |-> TRUE, data |-> data]]_vars

\* every declared block of every piece has been received
AllProcessed ==
    \A info \in AllDeclared(torrent) :
        info.begin \in DOMAIN pieces[info.piece_index].blocks

\* C4 - Full download: when every declared block has been requested through
\* next_block_request and then delivered with its true octets through
\* on_block, in any order across blocks and pieces, then after the last block
\* is processed is_complete() is true and verified_pieces equals the number of
\* pieces.
FullDownload ==
    AllProcessed =>
        /\ is_download_complete(Mgr)
        /\ stats.verified_pieces = Len(torrent.pieces)

\* the three-piece download is over, some request having timed out and been
\* issued again on the way
FullDownloadSeen ==
    /\ AllProcessed
    /\ Len(torrent.pieces) = 3
    /\ now > REQUEST_TIMEOUT
    /\ \A index \in DOMAIN pieces : pieces[index].state = "Verified"

\* the blocks whose ingestion leaves their piece Complete with assembled data
\* that does not hash to the expected value
CompletesWithMismatch(block) ==
    /\ block.info.piece_index \in DOMAIN pieces
    /\ LET p     == pieces[block.info.piece_index]
           added == add_block(p, block)
       IN  /\ added.ok
           /\ added.piece.state = "Complete"
           /\ \A a \in assemble_piece(added.piece) :
                  a # Panic /\ a.ok /\ Sha1(a.data) # p.hash

\* C5 - Hash rejection: when on_block ingests a block that completes its piece
\* and the assembled data does not hash to the expected value, the call leaves
\* the piece Pending with requested and received empty and missing equal to
\* the declared blocks, the failed counter one higher, verified_pieces as it
\* was, the piece index in the download queue, and the disk untouched.
HashRejection ==
    \A block \in PeerBlocks :
        CompletesWithMismatch(block) =>
            \A fault \in WriteFaults :
                \A out \in handle_block_received(torrent, file_map, disk, Mgr, block, fault) :
                    LET index == block.info.piece_index
                        q     == out.m.pieces[index]
                    IN  /\ q.state = "Pending"
                        /\ q.requested_blocks = EmptyMap
                        /\ q.blocks = EmptyMap
                        /\ q.missing_blocks = DeclaredBlocks(index, PieceLength(torrent, index))
                        /\ out.m.stats.failed_pieces = stats.failed_pieces + 1
                        /\ out.m.stats.verified_pieces = stats.verified_pieces
                        /\ index \in Range(out.m.download_queue)
                        /\ out.disk = disk

\* a rejection has happened: the piece is back in the queue, empty and Pending
HashRejectionSeen ==
    /\ stats.failed_pieces > 0
    /\ \E index \in DOMAIN pieces :
           /\ pieces[index].state = "Pending"
           /\ pieces[index].blocks = EmptyMap
           /\ index \in Range(download_queue)

\* the block is stored in its piece as it stands
AlreadyReceived(block) ==
    /\ block.info.piece_index \in DOMAIN pieces
    /\ block.info.begin \in DOMAIN pieces[block.info.piece_index].blocks
    /\ pieces[block.info.piece_index].blocks[block.info.begin] = block

\* C6 - Idempotent ingest: delivering again a block that is already stored
\* returns success and changes no piece state, not the queue and none of the
\* verified / completed / failed counters (the file system failing no write).
IdempotentIngest ==
    [][\A block \in PeerBlocks :
          (AlreadyReceived(block) /\ OnBlock(block, NoFault)) =>
              /\ \A out \in handle_block_received(torrent, file_map, disk, Mgr, block, NoFault) :
                     out.ret = "ok"
              /\ \A index \in DOMAIN pieces : pieces'[index].state = pieces[index].state
              /\ download_queue' = download_queue
              /\ stats'.verified_pieces = stats.verified_pieces
              /\ stats'.completed_pieces = stats.completed_pieces
              /\ stats'.failed_pieces = stats.failed_pieces]_vars

\* the delays after which the next call is examined: at once, at the timeout
\* to the second, one second past it
CallDelays == {0, REQUEST_TIMEOUT, REQUEST_TIMEOUT + 1}

\* C7 - Timeout: a next_block_request on a piece, made at any time from now
\* on, takes every request older than REQUEST_TIMEOUT out of requested and puts
\* it into missing, or issues it again in that same call with the time of the
\* call; a request whose age is at most REQUEST_TIMEOUT stays in requested with
\* its time and is not moved to missing.
TimeoutReap ==
    \A index \in DOMAIN pieces : \A d \in CallDelays :
        \A out \in get_next_block_request(Mgr, index, now + d) :
            \A b \in DOMAIN pieces[index].requested_blocks :
                LET ts == pieces[index].requested_blocks[b]
                    q  == out.m.pieces[index]
                IN  IF (now + d) - ts > REQUEST_TIMEOUT
                    THEN \/ b \in q.missing_blocks /\ b \notin DOMAIN q.requested_blocks
                         \/ /\ out.some /\ out.block = b
                            /\ b \notin q.missing_blocks
                            /\ b \in DOMAIN q.requested_blocks
                            /\ q.requested_blocks[b] = now + d
                    ELSE /\ b \in DOMAIN q.requested_blocks
                         /\ q.requested_blocks[b] = ts
                         /\ b \in q.missing_blocks => b \in pieces[index].missing_blocks

\* two requests of a piece have aged past the timeout: the next call reaps
\* both, issues one again and leaves the other in missing
TimeoutReapSeen ==
    \E index \in DOMAIN pieces :
        /\ Cardinality(TimedOut(pieces[index], now)) = 2
        /\ \E out \in get_next_block_request(Mgr, index, now) :
               out.some /\ out.reaped = 2 /\ Cardinality(out.m.pieces[index].missing_blocks) = 1

\* the pieces that read back from the download directory with a matching hash
StoredPieces(dsk) ==
    { index \in PieceIndices(torrent) :
          LET got == read_piece(torrent, file_map, dsk, index)
          IN  got.ok /\ Sha1(got.data) = torrent.pieces[index + 1] }

RECURSIVE LengthOf(_)
LengthOf(S) ==
    IF S = {} THEN 0
    ELSE LET index == CHOOSE i \in S : TRUE
         IN  (Min((index + 1) * torrent.piece_length, torrent.length)
                  - index * torrent.piece_length)
             + LengthOf(S \ {index})

\* C8 - Resume correctness: a coordinator constructed over a download directory
\* in which exactly the pieces of S read back with a matching hash has exactly
\* the pieces of S Verified, verified_pieces = |S|, downloaded_bytes the sum of
\* the lengths of the pieces of S, and as download queue the indices outside
\* S in ascending order.
ResumeCorrect ==
    LET S == StoredPieces(disk)
        m == new(torrent, check_existing_files(build_file_map(torrent), disk), disk)
        q == m.download_queue
    IN  /\ \A index \in PieceIndices(torrent) :
               /\ has_piece(m, index) <=> index \in S
               /\ m.pieces[index].state = "Verified" <=> index \in S
        /\ m.stats.verified_pieces = Cardinality(S)
        /\ m.stats.downloaded_bytes = LengthOf(S)
        /\ Range(q) = PieceIndices(torrent) \ S
        /\ \A j \in 1 .. (Len(q) - 1) : q[j] < q[j + 1]

\* a session was started over a directory that holds some pieces, the shorter
\* last piece among them, and lacks others
ResumeCorrectSeen ==
    LET S == StoredPieces(disk)
    IN  /\ Mgr = new(torrent, file_map, disk)
        /\ (Len(torrent.pieces) - 1) \in S
        /\ Cardinality(S) = 2
        /\ Len(download_queue) = Len(torrent.pieces) - 2
        /\ stats.downloaded_bytes = LengthOf(S)

\* C9 - Offset coverage: for every range [start, end) with
\* 0 <= start < end <= total length, the tuples of get_affected_files are in
\* file order, the first begins at start, each next begins where the previous
\* ended, and the last ends at end.
OffsetCoverage ==
    probe # NoProbe =>
        LET a == probe.affected
        IN  /\ Len(a) >= 1
            /\ a[1][2] = probe.start
            /\ a[Len(a)][3] = probe.end
            /\ \A j \in 1 .. (Len(a) - 1) :
                   /\ a[j][1] < a[j + 1][1]
                   /\ a[j][3] = a[j + 1][2]

\* a range that starts inside one file, covers a whole file and ends inside a
\* third one has been asked for
OffsetCoverageSeen ==
    /\ probe # NoProbe
    /\ Len(probe.affected) = 3
    /\ probe.start > file_map[probe.affected[1][1]].start_offset
    /\ probe.end < file_map[probe.affected[3][1]].start_offset
                       + file_map[probe.affected[3][1]].length

\* every piece index of the torrents downloaded
LivePieces == UNION { PieceIndices(w.torrent) : w \in LiveWorlds }

\* C10 - Recovery liveness: with a driver that keeps taking pieces and asking
\* for their blocks, peers that answer every request, in the end with the true
\* octets, and storage writes that succeed, every piece is eventually Verified
\* and is_complete() eventually is true, also after pieces failed verification.
RecoveryLiveness ==
    /\ \A index \in LivePieces :
           <>(index \in DOMAIN pieces => pieces[index].state = "Verified")
    /\ <>is_download_complete(Mgr)

\* C11 - In-flight deduplication: in every reachable state the missing set and
\* the requested map of every piece are disjoint, and a next_block_request made
\* now or later returns no block that is outstanding at the time of the call
\* (requested, not timed out, not received).
InFlightDedup ==
    \A index \in DOMAIN pieces :
        LET p == pieces[index]
        IN  /\ p.missing_blocks \cap DOMAIN p.requested_blocks = {}
            /\ \A d \in CallDelays :
                   \A out \in get_next_block_request(Mgr, index, now + d) :
                       out.some =>
                           \/ out.block \notin DOMAIN p.requested_blocks
                           \/ (now + d) - p.requested_blocks[out.block] > REQUEST_TIMEOUT

\* after a reset, a piece has one block outstanding and another one missing
InFlightDedupSeen ==
    /\ stats.failed_pieces > 0
    /\ \E index \in DOMAIN pieces :
           /\ pieces[index].missing_blocks # {}
           /\ DOMAIN pieces[index].requested_blocks # {}

\* the piece q is Complete, its assembled data passes the hash check, and the
\* write of that data fails under the fault
WriteFails(q, fault) ==
    /\ q.state = "Complete"
    /\ \A a \in assemble_piece(q) :
           /\ a # Panic
           /\ a.ok
           /\ Sha1(a.data) = q.hash
           /\ ~write_piece(torrent, file_map, disk, q.index, a.data, fault).ok

\* what C12 asks of an outcome of a call during which the write failed
AfterWriteFailure(out, index) ==
    /\ out.ret = "err"
    /\ out.m.pieces[index].state = "Complete"
    /\ out.m.stats.verified_pieces = stats.verified_pieces
    /\ out.m.stats.failed_pieces = stats.failed_pieces
    /\ out.m.download_queue = download_queue
    /\ \A again \in verify_and_write_piece(torrent, file_map, out.disk, out.m, index, NoFault) :
           /\ again.ret = "ok"
           /\ again.m.pieces[index].state = "Verified"

\* C12 - Storage write failure: when the write of a piece whose assembled data
\* passed the hash check fails, in verify_and_write_piece or in the on_block
\* that completed the piece, the call returns an error, the piece stays
\* Complete, verified_pieces and failed_pieces and the download queue are
\* unchanged, and a later verify_and_write_piece whose write succeeds sets
\* the piece Verified.
StorageWriteFailure ==
    \A fault \in WriteFaults :
        /\ \A index \in DOMAIN pieces :
               WriteFails(pieces[index], fault) =>
                   \A out \in verify_and_write_piece(torrent, file_map, disk, Mgr, index, fault) :
                       AfterWriteFailure(out, index)
        /\ \A block \in PeerBlocks :
               (/\ block.info.piece_index \in DOMAIN pieces
                /\ add_block(pieces[block.info.piece_index], block).ok
                /\ WriteFails(add_block(pieces[block.info.piece_index], block).piece, fault))
               => \A out \in handle_block_received(torrent, file_map, disk, Mgr, block, fault) :
                      AfterWriteFailure(out, block.info.piece_index)

\* a write has failed half-way: the piece that spans both files is Complete,
\* not queued, its part in the first file written and the second file absent
StorageWriteFailureSeen ==
    /\ Len(file_map) = 2
    /\ pieces[0].state = "Complete"
    /\ 0 \notin Range(download_queue)
    /\ disk[1].exists
    /\ ~disk[2].exists
    /\ stats.verified_pieces = 0
    /\ stats.failed_pieces = 0

\* blocks that end past their piece: every declared block with one octet more
\* than fits, a two-octet block at the last octet of piece 0, and the block
\* at usize::MAX, which ends at 2^64
OversizeBlocks ==
    { [info |-> info,
       data |-> <<Run(PieceLength(torrent, info.piece_index) - info.begin + 1, 255)>>]
      : info \in AllDeclared(torrent) }
    \cup { BadBlock(BlockInfo(0, PieceLength(torrent, 0) - 1, 2)) }
    \cup { WrappingBlock }

\* C13 - Invalid block rejection: on_block with a block whose begin + |data|
\* exceeds the length of its piece returns an error and leaves every piece
\* (state, missing, requested, received), the download queue, the stats and
\* the disk as they were; a matching request stays in requested.
InvalidBlockRejected ==
    \A block \in OversizeBlocks : \A fault \in WriteFaults :
        \A out \in handle_block_received(torrent, file_map, disk, Mgr, block, fault) :
            /\ out.ret = "err"
            /\ out.m = Mgr
            /\ out.disk = disk
            /\ \A info \in DOMAIN pieces[block.info.piece_index].requested_blocks :
                   /\ info \in DOMAIN out.m.pieces[block.info.piece_index].requested_blocks
                   /\ out.m.pieces[block.info.piece_index].requested_blocks[info]
                          = pieces[block.info.piece_index].requested_blocks[info]

\* no file of the download directory is longer than the metainfo declares
SizesWithin(dsk) ==
    \A k \in DOMAIN file_map : dsk[k].exists => BLen(dsk[k].data) <= file_map[k].length

\* C14 - File sizes: a write_piece that succeeds on a download directory in
\* which no file exceeds its declared length leaves no file longer than its
\* declared length.
FileSizesKept ==
    [][\A piece_index \in PieceIndices(torrent) :
          \A data \in StorageData :
              (/\ SizesWithin(disk)
               /\ write_piece(torrent, file_map, disk, piece_index, data, NoFault).ok
               /\ WritePiece(piece_index, data, NoFault))
              => SizesWithin(disk')]_vars

(***************************************************************************)
(* The bencode codec (src/src/protocol/bencode.rs) and the encoder of      *)
(* src/src/protocol/torrent.rs.  A byte input is a sequence of octets: an  *)
(* ASCII octet is the one-character string of its character, an octet      *)
(* above 0x7F is the string xHH of its hexadecimal value.  A BencodeValue   *)
(* is a record tagged with its variant; a Dictionary keeps the flat key,   *)
(* value, key, value vector of the source.  A Result is [ok |-> TRUE, ...] *)
(* or CodecErr.                                                            *)
(*                                                                         *)
(* The integers of the codec and of the loader are 64 bits wide.  An i64   *)
(* is a sign and a magnitude, a usize is a magnitude; a magnitude is the   *)
(* sequence of its decimal digits, most significant first, without         *)
(* leading zeros (<<0>> for zero).                                         *)
(***************************************************************************)
Digits == {"0", "1", "2", "3", "4", "5", "6", "7", "8", "9"}

DigitValue(c) ==
    CASE c = "0" -> 0 [] c = "1" -> 1 [] c = "2" -> 2 [] c = "3" -> 3 [] c = "4" -> 4
      [] c = "5" -> 5 [] c = "6" -> 6 [] c = "7" -> 7 [] c = "8" -> 8 [] c = "9" -> 9

DigitChar(n) ==
    CASE n = 0 -> "0" [] n = 1 -> "1" [] n = 2 -> "2" [] n = 3 -> "3" [] n = 4 -> "4"
      [] n = 5 -> "5" [] n = 6 -> "6" [] n = 7 -> "7" [] n = 8 -> "8" [] n = 9 -> "9"

\* the values of the octets above 0x7F
HighOctet ==
    [ x80 |-> 128, x81 |-> 129, x82 |-> 130, x83 |-> 131, x84 |-> 132, x85 |-> 133,
      x86 |-> 134, x87 |-> 135, x88 |-> 136, x89 |-> 137, x8A |-> 138, x8B |-> 139,
      x8C |-> 140, x8D |-> 141, x8E |-> 142, x8F |-> 143, x90 |-> 144, x91 |-> 145,
      x92 |-> 146, x93 |-> 147, x94 |-> 148, x95 |-> 149, x96 |-> 150, x97 |-> 151,
      x98 |-> 152, x99 |-> 153, x9A |-> 154, x9B |-> 155, x9C |-> 156, x9D |-> 157,
      x9E |-> 158, x9F |-> 159, xA0 |-> 160, xA1 |-> 161, xA2 |-> 162, xA3 |-> 163,
      xA4 |-> 164, xA5 |-> 165, xA6 |-> 166, xA7 |-> 167, xA8 |-> 168, xA9 |-> 169,
      xAA |-> 170, xAB |-> 171, xAC |-> 172, xAD |-> 173, xAE |-> 174, xAF |-> 175,
      xB0 |-> 176, xB1 |-> 177, xB2 |-> 178, xB3 |-> 179, xB4 |-> 180, xB5 |-> 181,
      xB6 |-> 182, xB7 |-> 183, xB8 |-> 184, xB9 |-> 185, xBA |-> 186, xBB |-> 187,
      xBC |-> 188, xBD |-> 189, xBE |-> 190, xBF |-> 191, xC0 |-> 192, xC1 |-> 193,
      xC2 |-> 194, xC3 |-> 195, xC4 |-> 196, xC5 |-> 197, xC6 |-> 198, xC7 |-> 199,
      xC8 |-> 200, xC9 |-> 201, xCA |-> 202, xCB |-> 203, xCC |-> 204, xCD |-> 205,
      xCE |-> 206, xCF |-> 207, xD0 |-> 208, xD1 |-> 209, xD2 |-> 210, xD3 |-> 211,
      xD4 |-> 212, xD5 |-> 213, xD6 |-> 214, xD7 |-> 215, xD8 |-> 216, xD9 |-> 217,
      xDA |-> 218, xDB |-> 219, xDC |-> 220, xDD |-> 221, xDE |-> 222, xDF |-> 223,
      xE0 |-> 224, xE1 |-> 225, xE2 |-> 226, xE3 |-> 227, xE4 |-> 228, xE5 |-> 229,
      xE6 |-> 230, xE7 |-> 231, xE8 |-> 232, xE9 |-> 233, xEA |-> 234, xEB |-> 235,
      xEC |-> 236, xED |-> 237, xEE |-> 238, xEF |-> 239, xF0 |-> 240, xF1 |-> 241,
      xF2 |-> 242, xF3 |-> 243, xF4 |-> 244, xF5 |-> 245, xF6 |-> 246, xF7 |-> 247,
      xF8 |-> 248, xF9 |-> 249, xFA |-> 250, xFB |-> 251, xFC |-> 252, xFD |-> 253,
      xFE |-> 254, xFF |-> 255 ]
\* the value table gives an octet, 0 when it gives none
Lookup(c, table) == IF c \in DOMAIN table THEN table[c] ELSE 0

\* the value of an octet above 0x7F, 0 for an ASCII octet
High(c) == Lookup(c, HighOctet)

\* High of the octet b[j], 0 past the end of b
HighAt(b, j) == IF j <= Len(b) THEN High(b[j]) ELSE 0

\* the number of octets of a well-formed UTF-8 sequence that starts with the
\* octets of the values first, second, third and fourth, 0 when there is none:
\* one ASCII octet; C2..DF and a continuation octet 80..BF; E0, A0..BF and a
\* continuation; E1..EC or EE..EF and two continuations; ED, 80..9F and a
\* continuation; F0, 90..BF and two continuations; F1..F3 and three
\* continuations; F4, 80..8F and two continuations
Utf8Width(first, second, third, fourth) ==
    CASE first = 0 -> 1
      [] first \in 194 .. 223 -> IF second \in 128 .. 191 THEN 2 ELSE 0
      [] first = 224 -> IF second \in 160 .. 191 /\ third \in 128 .. 191 THEN 3 ELSE 0
      [] first \in (225 .. 236) \cup (238 .. 239) ->
             IF second \in 128 .. 191 /\ third \in 128 .. 191 THEN 3 ELSE 0
      [] first = 237 -> IF second \in 128 .. 159 /\ third \in 128 .. 191 THEN 3 ELSE 0
      [] first = 240 ->
             IF second \in 144 .. 191 /\ third \in 128 .. 191 /\ fourth \in 128 .. 191
             THEN 4 ELSE 0
      [] first \in 241 .. 243 ->
             IF second \in 128 .. 191 /\ third \in 128 .. 191 /\ fourth \in 128 .. 191
             THEN 4 ELSE 0
      [] first = 244 ->
             IF second \in 128 .. 143 /\ third \in 128 .. 191 /\ fourth \in 128 .. 191
             THEN 4 ELSE 0
      [] OTHER -> 0

RECURSIVE WellFormedFrom(_, _)

\* a sequence of width octets starts at b[k], and what follows it is
\* well-formed
WellFormedAfter(b, k, width) == width > 0 /\ WellFormedFrom(b, k + width)

\* the octets from b[k] on are well-formed UTF-8
WellFormedFrom(b, k) ==
    IF k > Len(b) THEN TRUE
    ELSE WellFormedAfter(b, k, Utf8Width(High(b[k]), HighAt(b, k + 1), HighAt(b, k + 2),
                                         HighAt(b, k + 3)))

CodecErr == [ok |-> FALSE]

\* String::from_utf8; a String is kept as its octets
from_utf8(b) == IF WellFormedFrom(b, 1) THEN [ok |-> TRUE, value |-> b] ELSE CodecErr

\* a digit sequence without its leading zeros
Magnitude(digits) ==
    LET significant == { k \in DOMAIN digits : digits[k] # 0 }
    IN  IF significant = {} THEN <<0>>
        ELSE SubSeq(digits, CHOOSE k \in significant : \A j \in significant : k <= j,
                    Len(digits))

\* a < b on magnitudes
MagLess(a, b) ==
    \/ Len(a) < Len(b)
    \/ /\ Len(a) = Len(b)
       /\ \E k \in DOMAIN a : a[k] < b[k] /\ \A j \in 1 .. (k - 1) : a[j] = b[j]

\* the digit of weight 10^i of a magnitude
DigitAt(a, i) == IF i < Len(a) THEN a[Len(a) - i] ELSE 0

\* the carry into the digit of weight 10^i of a + b
RECURSIVE Carry(_, _, _)
Carry(a, b, i) ==
    IF i = 0 THEN 0
    ELSE (DigitAt(a, i - 1) + DigitAt(b, i - 1) + Carry(a, b, i - 1)) \div 10

\* a + b on magnitudes
MagAdd(a, b) ==
    LET n == (IF Len(a) > Len(b) THEN Len(a) ELSE Len(b)) + 1
    IN  Magnitude([k \in 1 .. n |->
                      (DigitAt(a, n - k) + DigitAt(b, n - k) + Carry(a, b, n - k)) % 10])

\* the borrow from the digit of weight 10^i of a - b
RECURSIVE Borrow(_, _, _)
Borrow(a, b, i) ==
    IF i = 0 THEN 0
    ELSE IF DigitAt(a, i - 1) - DigitAt(b, i - 1) - Borrow(a, b, i - 1) < 0 THEN 1 ELSE 0

\* a - b on magnitudes, for a >= b
MagSub(a, b) ==
    Magnitude([k \in 1 .. Len(a) |->
                  (10 + DigitAt(a, Len(a) - k) - DigitAt(b, Len(a) - k)
                      - Borrow(a, b, Len(a) - k)) % 10])

\* the magnitude of a length of the model
RECURSIVE MagOf(_)
MagOf(n) == IF n < 10 THEN <<n>> ELSE Append(MagOf(n \div 10), n % 10)

\* the length a magnitude stands for, for magnitudes within the lengths of the
\* model
RECURSIVE Small(_, _)
Small(mag, acc) == IF mag = <<>> THEN acc ELSE Small(Tail(mag), 10 * acc + Head(mag))

\* i64::MAX = 2^63 - 1, the magnitude 2^63 of i64::MIN, usize::MAX = 2^64 - 1
\* and 2^64
I64_MAX == <<9, 2, 2, 3, 3, 7, 2, 0, 3, 6, 8, 5, 4, 7, 7, 5, 8, 0, 7>>
I64_MIN == <<9, 2, 2, 3, 3, 7, 2, 0, 3, 6, 8, 5, 4, 7, 7, 5, 8, 0, 8>>
USIZE_MAX == <<1, 8, 4, 4, 6, 7, 4, 4, 0, 7, 3, 7, 0, 9, 5, 5, 1, 6, 1, 5>>
TwoTo64 == <<1, 8, 4, 4, 6, 7, 4, 4, 0, 7, 3, 7, 0, 9, 5, 5, 1, 6, 1, 6>>

I64(neg, mag) == [neg |-> neg, mag |-> mag]

Integer(n) == [type |-> "Integer", int |-> n]
Bytes(b) == [type |-> "Bytes", bytes |-> b]
List(items) == [type |-> "List", items |-> items]
Dictionary(items) == [type |-> "Dictionary", items |-> items]

\* the number of leading octets of r that differ from the octet c
RECURSIVE UpTo(_, _)
UpTo(r, c) ==
    IF r = <<>> \/ Head(r) = c THEN 0 ELSE 1 + UpTo(Tail(r), c)

\* the digit values of a run of decimal digits
DigitValues(s) == [k \in DOMAIN s |-> DigitValue(s[k])]

\* the text s without a leading sign out of signs
Unsigned(s, signs) == IF s # <<>> /\ Head(s) \in signs THEN Tail(s) ELSE s

\* one or more decimal digits
IsDigits(digits) == digits # <<>> /\ \A k \in DOMAIN digits : digits[k] \in Digits

\* the range check of str::parse: Err on a magnitude beyond limit
Limited(mag, limit) ==
    IF MagLess(limit, mag) THEN CodecErr ELSE [ok |-> TRUE, value |-> mag]

\* str::parse::<usize>() of the standard library: an optional '+', then one
\* or more decimal digits, leading zeros allowed, of a value up to usize::MAX
parse_usize(s) ==
    IF IsDigits(Unsigned(s, {"+"}))
    THEN Limited(Magnitude(DigitValues(Unsigned(s, {"+"}))), USIZE_MAX)
    ELSE CodecErr

\* the i64 of a sign and of a magnitude that passed the range check
Signed(negative, mag) ==
    IF mag.ok THEN [ok |-> TRUE, value |-> I64(negative /\ mag.value # <<0>>, mag.value)]
    ELSE CodecErr

\* str::parse::<i64>() of the standard library: an optional '+' or '-', then
\* one or more decimal digits, leading zeros allowed, of a value from
\* i64::MIN to i64::MAX
parse_i64(s) ==
    IF IsDigits(Unsigned(s, {"+", "-"}))
    THEN Signed(Head(s) = "-",
                Limited(Magnitude(DigitValues(Unsigned(s, {"+", "-"}))),
                        IF Head(s) = "-" THEN I64_MIN ELSE I64_MAX))
    ELSE CodecErr

\* number_str.parse::<i64>() behind the ? of String::from_utf8
ParsedI64(number_str) == IF number_str.ok THEN parse_i64(number_str.value) ELSE CodecErr

\* the end of decode_integer: Ok(BencodeValue::Integer(number)), the reader
\* stands at rest
IntegerFrom(number, rest) ==
    IF number.ok THEN [ok |-> TRUE, value |-> Integer(number.value), rest |-> rest]
    ELSE CodecErr

\* Decoding Functionality for Integers
decode_integer(reader) ==
    LET body == Tail(reader)
        n == UpTo(body, "e")
    IN  IF n = Len(body) THEN CodecErr
        ELSE IntegerFrom(ParsedI64(from_utf8(SubSeq(body, 1, n))),
                         SubSeq(body, n + 2, Len(body)))

\* length_str.parse() as usize behind the ? of String::from_utf8
ParsedUsize(length_str) ==
    IF length_str.ok THEN parse_usize(length_str.value) ELSE CodecErr

\* reader.copy_to_bytes(length)
copy_to_bytes(rest, count) ==
    [ok |-> TRUE, value |-> Bytes(SubSeq(rest, 1, count)),
     rest |-> SubSeq(rest, count + 1, Len(rest))]

\* the end of decode_bytes: the reader stands at rest, after the colon
BytesFrom(length, rest) ==
    IF ~length.ok THEN CodecErr
    ELSE IF MagLess(MagOf(Len(rest)), length.value) THEN CodecErr
    ELSE copy_to_bytes(rest, Small(length.value, 0))

decode_bytes(reader) ==
    LET n == UpTo(reader, ":")
    IN  IF \E k \in 1 .. n : reader[k] \notin Digits THEN CodecErr
        ELSE IF n = Len(reader) THEN CodecErr
        ELSE BytesFrom(ParsedUsize(from_utf8(SubSeq(reader, 1, n))),
                       SubSeq(reader, n + 2, Len(reader)))

RECURSIVE decode_from_reader(_)
RECURSIVE ListLoop(_, _)
RECURSIVE DictionaryLoop(_, _)

\* the loop of decode_list and what follows it
ListLoop(reader, list) ==
    IF reader # <<>> /\ Head(reader) # "e"
    THEN LET item == decode_from_reader(reader)
         IN  IF ~item.ok THEN CodecErr
             ELSE ListLoop(item.rest, Append(list, item.value))
    ELSE IF reader = <<>> THEN CodecErr
    ELSE [ok |-> TRUE, value |-> List(list), rest |-> Tail(reader)]

decode_list(reader) == ListLoop(Tail(reader), <<>>)

\* the loop of decode_dictionary and what follows it
DictionaryLoop(reader, dictionary) ==
    IF reader # <<>> /\ Head(reader) # "e"
    THEN LET key == decode_from_reader(reader)
         IN  IF ~key.ok THEN CodecErr
             ELSE LET value == decode_from_reader(key.rest)
                  IN  IF ~value.ok THEN CodecErr
                      ELSE DictionaryLoop(value.rest,
                                          dictionary \o <<key.value, value.value>>)
    ELSE IF reader = <<>> THEN CodecErr
    ELSE [ok |-> TRUE, value |-> Dictionary(dictionary), rest |-> Tail(reader)]

decode_dictionary(reader) == DictionaryLoop(Tail(reader), <<>>)

decode_from_reader(reader) ==
    IF reader = <<>> THEN CodecErr
    ELSE CASE Head(reader) = "l" -> decode_list(reader)
           [] Head(reader) = "i" -> decode_integer(reader)
           [] Head(reader) = "d" -> decode_dictionary(reader)
           [] Head(reader) \in Digits -> decode_bytes(reader)
           [] OTHER -> CodecErr

decode(bytes) ==
    LET value == decode_from_reader(bytes)
    IN  IF ~value.ok THEN CodecErr
        ELSE IF value.rest # <<>> THEN CodecErr
        ELSE [ok |-> TRUE, value |-> value.value]

\* the decimal digits of a magnitude as octets
DecimalDigits(mag) == [k \in DOMAIN mag |-> DigitChar(mag[k])]

\* usize::to_string of the length of a vector
len_to_string(n) == DecimalDigits(MagOf(n))

\* i64::to_string
to_string(i) == IF i.neg THEN <<"-">> \o DecimalDigits(i.mag) ELSE DecimalDigits(i.mag)

RECURSIVE encode_bencode(_)
RECURSIVE EncodeAll(_)

\* the encodings of the values of a vector, one after the other
EncodeAll(items) ==
    IF items = <<>> THEN <<>> ELSE encode_bencode(Head(items)) \o EncodeAll(Tail(items))

encode_bencode(value) ==
    CASE value.type = "Integer" -> <<"i">> \o to_string(value.int) \o <<"e">>
      [] value.type = "List" -> <<"l">> \o EncodeAll(value.items) \o <<"e">>
      [] value.type = "Dictionary" ->
             <<"d">> \o EncodeAll(SubSeq(value.items, 1, 2 * (Len(value.items) \div 2)))
                     \o <<"e">>
      [] value.type = "Bytes" ->
             len_to_string(Len(value.bytes)) \o <<":">> \o value.bytes

-----------------------------------------------------------------------------
(* Metainfo projection (src/src/protocol/torrent.rs)                       *)

KeyAnnounce == <<"a", "n", "n", "o", "u", "n", "c", "e">>
KeyInfo == <<"i", "n", "f", "o">>
KeyName == <<"n", "a", "m", "e">>
KeyPieceLength == <<"p", "i", "e", "c", "e", " ", "l", "e", "n", "g", "t", "h">>
KeyPieces == <<"p", "i", "e", "c", "e", "s">>
KeyLength == <<"l", "e", "n", "g", "t", "h">>
KeyFiles == <<"f", "i", "l", "e", "s">>
KeyPath == <<"p", "a", "t", "h">>

\* SHA-1 of an octet sequence, as an ideal hash: two digests are equal exactly
\* when the hashed sequences are
Sha1Digest(buf) == [sha1 |-> buf]

\* the positions i of a flat key, value vector visited by
\* "while i + 1 < dict.len() { ...; i += 2 }" (1-based)
PairStarts(dict) == { i \in 1 .. Len(dict) : i % 2 = 1 /\ i + 1 <= Len(dict) }

\* the positions whose key is the byte string key
KeyHits(dict, key) ==
    { i \in PairStarts(dict) : dict[i].type = "Bytes" /\ dict[i].bytes = key }

First(S) == CHOOSE i \in S : \A j \in S : i <= j

\* the match on the decoded top-level value
TopLevel(value) ==
    IF value.ok /\ value.value.type = "Dictionary"
    THEN [ok |-> TRUE, dict |-> value.value.items]
    ELSE CodecErr

\* the positions at which the projectors of the info dictionary run their inner
\* loop: a key "info" whose value is a dictionary
InfoHits(dict) == { i \in KeyHits(dict, KeyInfo) : dict[i + 1].type = "Dictionary" }

\* the inner loops answer NotFound when they run to their end without returning,
\* and the outer loop then goes on
NotFound == [found |-> FALSE]
Found(result) == [found |-> TRUE, result |-> result]

\* "as usize" on an i64: a negative -k becomes 2^64 - k
as_usize(i) == IF i.neg THEN MagSub(TwoTo64, i.mag) ELSE i.mag

extract_announce(bytes) ==
    LET top == TopLevel(decode(bytes))
        hits == KeyHits(top.dict, KeyAnnounce)
        val == top.dict[First(hits) + 1]
    IN  IF ~top.ok THEN CodecErr
        ELSE IF hits = {} THEN CodecErr
        ELSE IF val.type = "Bytes" THEN from_utf8(val.bytes)
        ELSE CodecErr

\* the buffer extract_info_hash fills and hashes: the re-encoded value of the
\* first top-level key "info"
InfoBuf(bytes) ==
    LET top == TopLevel(decode_from_reader(bytes))
        hits == KeyHits(top.dict, KeyInfo)
    IN  IF ~top.ok THEN CodecErr
        ELSE IF hits = {} THEN CodecErr
        ELSE [ok |-> TRUE, buf |-> encode_bencode(top.dict[First(hits) + 1])]

extract_info_hash(bytes) ==
    LET info == InfoBuf(bytes)
    IN  IF ~info.ok THEN CodecErr
        ELSE [ok |-> TRUE, value |-> Sha1Digest(info.buf)]

NameOf(info_dict) ==
    LET hits == KeyHits(info_dict, KeyName)
        val == info_dict[First(hits) + 1]
    IN  IF hits = {} THEN NotFound
        ELSE IF val.type = "Bytes" THEN Found(from_utf8(val.bytes))
        ELSE Found(CodecErr)

extract_name(bytes) ==
    LET top == TopLevel(decode_from_reader(bytes))
        hits == { i \in InfoHits(top.dict) : NameOf(top.dict[i + 1].items).found }
    IN  IF ~top.ok THEN CodecErr
        ELSE IF hits = {} THEN CodecErr
        ELSE NameOf(top.dict[First(hits) + 1].items).result

PieceLengthOf(info_dict) ==
    LET hits == KeyHits(info_dict, KeyPieceLength)
        val == info_dict[First(hits) + 1]
    IN  IF hits = {} THEN NotFound
        ELSE IF val.type = "Integer" THEN Found([ok |-> TRUE, value |-> as_usize(val.int)])
        ELSE Found(CodecErr)

extract_piece_length(bytes) ==
    LET top == TopLevel(decode_from_reader(bytes))
        hits == { i \in InfoHits(top.dict) : PieceLengthOf(top.dict[i + 1].items).found }
    IN  IF ~top.ok THEN CodecErr
        ELSE IF hits = {} THEN CodecErr
        ELSE PieceLengthOf(top.dict[First(hits) + 1].items).result

\* pieces_data.chunks(20) when the length is a multiple of 20
Chunks20(data) == [k \in 1 .. (Len(data) \div 20) |-> SubSeq(data, 20 * (k - 1) + 1, 20 * k)]

PiecesOf(info_dict) ==
    LET hits == KeyHits(info_dict, KeyPieces)
        val == info_dict[First(hits) + 1]
    IN  IF hits = {} THEN NotFound
        ELSE IF val.type # "Bytes" THEN Found(CodecErr)
        ELSE IF Len(val.bytes) % 20 # 0 THEN Found(CodecErr)
        ELSE Found([ok |-> TRUE, value |-> Chunks20(val.bytes)])

extract_pieces(bytes) ==
    LET top == TopLevel(decode_from_reader(bytes))
        hits == { i \in InfoHits(top.dict) : PiecesOf(top.dict[i + 1].items).found }
    IN  IF ~top.ok THEN CodecErr
        ELSE IF hits = {} THEN CodecErr
        ELSE PiecesOf(top.dict[First(hits) + 1].items).result

\* total_length of extract_length: its value modulo 2^64, and whether an
\* addition went past usize::MAX
NoLength == [value |-> <<0>>, overflow |-> FALSE]

\* total_length += file_length as usize
AddLength(total_length, file_length) ==
    LET sum == MagAdd(total_length.value, as_usize(file_length))
    IN  IF MagLess(USIZE_MAX, sum)
        THEN [value |-> MagSub(sum, TwoTo64), overflow |-> TRUE]
        ELSE [value |-> sum, overflow |-> total_length.overflow]

\* the loop over the pairs of a file dictionary: every integer under a key
\* "length" is added
RECURSIVE FileLengthSum(_, _, _)
FileLengthSum(file_dict, k, total_length) ==
    IF k + 1 > Len(file_dict) THEN total_length
    ELSE FileLengthSum(file_dict, k + 2,
                       IF /\ file_dict[k].type = "Bytes" /\ file_dict[k].bytes = KeyLength
                          /\ file_dict[k + 1].type = "Integer"
                       THEN AddLength(total_length, file_dict[k + 1].int)
                       ELSE total_length)

\* the loop over the files list
RECURSIVE TotalLength(_, _)
TotalLength(files_list, total_length) ==
    IF files_list = <<>> THEN total_length
    ELSE TotalLength(Tail(files_list),
                     IF Head(files_list).type = "Dictionary"
                     THEN FileLengthSum(Head(files_list).items, 1, total_length)
                     ELSE total_length)

\* what extract_length returns for a files list: an addition past usize::MAX
\* panics where overflow is checked and wraps where it is not
ReturnTotal(total_length) ==
    IF total_length.overflow
    THEN PerBuild(Panic, [ok |-> TRUE, value |-> total_length.value])
    ELSE [ok |-> TRUE, value |-> total_length.value]

\* the inner loop of extract_length from position j on
RECURSIVE LengthFrom(_, _)
LengthFrom(info_dict, j) ==
    IF j + 1 > Len(info_dict) THEN NotFound
    ELSE IF info_dict[j].type = "Bytes" /\ info_dict[j].bytes = KeyLength
    THEN IF info_dict[j + 1].type = "Integer"
         THEN Found([ok |-> TRUE, value |-> as_usize(info_dict[j + 1].int)])
         ELSE Found(CodecErr)
    ELSE IF /\ info_dict[j].type = "Bytes" /\ info_dict[j].bytes = KeyFiles
            /\ info_dict[j + 1].type = "List"
    THEN Found(ReturnTotal(TotalLength(info_dict[j + 1].items, NoLength)))
    ELSE LengthFrom(info_dict, j + 2)

LengthOfInfo(info_dict) == LengthFrom(info_dict, 1)

\* Ok, Err, or PerBuild(Panic, Ok) when the sum of the file lengths overflows
extract_length(bytes) ==
    LET top == TopLevel(decode_from_reader(bytes))
        hits == { i \in InfoHits(top.dict) : LengthOfInfo(top.dict[i + 1].items).found }
    IN  IF ~top.ok THEN CodecErr
        ELSE IF hits = {} THEN CodecErr
        ELSE LengthOfInfo(top.dict[First(hits) + 1].items).result

\* the last integer under "length" of a file dictionary as usize, 0 when there
\* is none
RECURSIVE FileLength(_, _, _)
FileLength(file_dict, k, file_length) ==
    IF k + 1 > Len(file_dict) THEN file_length
    ELSE FileLength(file_dict, k + 2,
                    IF /\ file_dict[k].type = "Bytes" /\ file_dict[k].bytes = KeyLength
                       /\ file_dict[k + 1].type = "Integer"
                    THEN as_usize(file_dict[k + 1].int) ELSE file_length)

\* the byte strings of a path list as Strings; Err when one of them is not
\* UTF-8
RECURSIVE PathComponents(_)
PathComponents(path_list) ==
    IF path_list = <<>> THEN [ok |-> TRUE, value |-> <<>>]
    ELSE LET path_str == from_utf8(Head(path_list).bytes)
             rest == PathComponents(Tail(path_list))
         IN  IF Head(path_list).type # "Bytes" THEN rest
             ELSE IF ~path_str.ok THEN CodecErr
             ELSE IF ~rest.ok THEN CodecErr
             ELSE [ok |-> TRUE, value |-> <<path_str.value>> \o rest.value]

\* the components collected from every list under "path" of a file dictionary
RECURSIVE FilePath(_, _)
FilePath(file_dict, k) ==
    IF k + 1 > Len(file_dict) THEN [ok |-> TRUE, value |-> <<>>]
    ELSE LET components == PathComponents(file_dict[k + 1].items)
             rest == FilePath(file_dict, k + 2)
         IN  IF ~(/\ file_dict[k].type = "Bytes" /\ file_dict[k].bytes = KeyPath
                  /\ file_dict[k + 1].type = "List")
             THEN rest
             ELSE IF ~components.ok THEN CodecErr
             ELSE IF ~rest.ok THEN CodecErr
             ELSE [ok |-> TRUE, value |-> components.value \o rest.value]

RECURSIVE TorrentFiles(_)
TorrentFiles(files_list) ==
    IF files_list = <<>> THEN [ok |-> TRUE, value |-> <<>>]
    ELSE LET file_path == FilePath(Head(files_list).items, 1)
             rest == TorrentFiles(Tail(files_list))
         IN  IF Head(files_list).type # "Dictionary" THEN rest
             ELSE IF ~file_path.ok THEN CodecErr
             ELSE IF ~rest.ok THEN CodecErr
             ELSE [ok |-> TRUE,
                   value |-> << [path |-> file_path.value,
                                 length |-> FileLength(Head(files_list).items, 1, <<0>>)] >>
                             \o rest.value]

NoFiles == [some |-> FALSE]

\* the inner loop of extract_files from position j on
RECURSIVE FilesFrom(_, _)
FilesFrom(info_dict, j) ==
    IF j + 1 > Len(info_dict) THEN [ok |-> TRUE, value |-> NoFiles]
    ELSE IF /\ info_dict[j].type = "Bytes" /\ info_dict[j].bytes = KeyFiles
            /\ info_dict[j + 1].type = "List"
    THEN LET torrent_files == TorrentFiles(info_dict[j + 1].items)
         IN  IF ~torrent_files.ok THEN CodecErr
             ELSE [ok |-> TRUE, value |-> [some |-> TRUE, files |-> torrent_files.value]]
    ELSE IF info_dict[j].type = "Bytes" /\ info_dict[j].bytes = KeyLength
    THEN [ok |-> TRUE, value |-> NoFiles]
    ELSE FilesFrom(info_dict, j + 2)

\* the first info dictionary ends the search, whatever it holds
extract_files(bytes) ==
    LET top == TopLevel(decode_from_reader(bytes))
        hits == InfoHits(top.dict)
    IN  IF ~top.ok THEN CodecErr
        ELSE IF hits = {} THEN CodecErr
        ELSE FilesFrom(top.dict[First(hits) + 1].items, 1)

\* the end of Torrent::from_bytes, from the result of extract_length on
FromLength(bytes, announce, info_hash, name, piece_length, pieces_, length) ==
    LET files == extract_files(bytes)
    IN  IF ~length.ok THEN CodecErr
        ELSE IF ~files.ok THEN CodecErr
        ELSE [ok |-> TRUE,
              value |-> [announce |-> announce.value,
                         info_hash |-> info_hash.value,
                         piece_length |-> piece_length.value,
                         pieces |-> pieces_.value,
                         name |-> name.value,
                         length |-> length.value,
                         files |-> files.value]]

\* Torrent::from_bytes: Ok, Err, or PerBuild(Panic, result) when extract_length
\* is reached and the sum of the file lengths overflows
from_bytes(bytes) ==
    LET announce == extract_announce(bytes)
        info_hash == extract_info_hash(bytes)
        name == extract_name(bytes)
        piece_length == extract_piece_length(bytes)
        pieces_ == extract_pieces(bytes)
        length == extract_length(bytes)
    IN  IF ~announce.ok THEN CodecErr
        ELSE IF ~info_hash.ok THEN CodecErr
        ELSE IF ~name.ok THEN CodecErr
        ELSE IF ~piece_length.ok THEN CodecErr
        ELSE IF ~pieces_.ok THEN CodecErr
        ELSE IF ByBuild(length)
        THEN PerBuild(Panic,
                      FromLength(bytes, announce, info_hash, name, piece_length, pieces_,
                                 length.wrapping))
        ELSE FromLength(bytes, announce, info_hash, name, piece_length, pieces_, length)

-----------------------------------------------------------------------------
(* The codec and the loader on every short input, on numbers at the limits *)
(* of their types and on metainfo files                                    *)

\* the longest octet sequence handed to the decoder as is
MaxInput == 5

\* the most piece hashes a generated metainfo file holds
MaxHashes == 3

\* the octets the short inputs are made of: the four type marks, the
\* separator, both signs, a zero and a non-zero digit
Alphabet == {"i", "e", "l", "d", ":", "-", "+", "0", "3"}

ShortInputs == UNION { [1 .. n -> Alphabet] : n \in 0 .. MaxInput }

\* a byte string as bencode writes it
BStr(b) == len_to_string(Len(b)) \o <<":">> \o b

\* an integer token around the decimal text
IntToken(text) == <<"i">> \o text \o <<"e">>

\* decimal texts at and past the limits of i64, with a sign and with a
\* leading zero
WideTexts ==
    { DecimalDigits(I64_MAX), DecimalDigits(I64_MIN),
      <<"-">> \o DecimalDigits(I64_MIN), <<"-">> \o DecimalDigits(MagAdd(I64_MIN, <<1>>)),
      <<"+">> \o DecimalDigits(I64_MAX), <<"0">> \o DecimalDigits(I64_MAX),
      DecimalDigits(USIZE_MAX), <<"-">> \o DecimalDigits(TwoTo64) }

\* byte strings that are, and that are not, UTF-8: an ASCII letter, a
\* two-octet letter, a lone lead octet, an octet that occurs in no encoding,
\* an overlong form and a surrogate
OctetTexts ==
    { <<"u">>, <<"xC3", "xA9">>, <<"xC3">>, <<"xFF">>, <<"xC0", "x80">>,
      <<"xED", "xA0", "x80">> }

\* integer tokens at the limits of i64 and with octets that are no digits,
\* byte strings whose length prefix is at the limits of usize, and byte
\* strings of any octets
WideInputs ==
    { IntToken(text) : text \in WideTexts \cup OctetTexts }
    \cup { DecimalDigits(USIZE_MAX) \o <<":", "a">>, DecimalDigits(TwoTo64) \o <<":", "a">>,
           DecimalDigits(I64_MIN) \o <<":">>, <<"0", "0", "1", ":", "a">> }
    \cup { BStr(text) : text \in OctetTexts }
    \cup { <<"d">> \o BStr(text) \o IntToken(DecimalDigits(I64_MAX)) \o <<"e">> :
               text \in OctetTexts }

HashOctets == <<"a", "b", "c", "h">>

\* count piece hashes of 20 octets each, and 10 stray octets when ragged
RECURSIVE HashVector(_, _)
HashVector(count, ragged) ==
    IF count = 0 THEN (IF ragged THEN [j \in 1 .. 10 |-> "x"] ELSE <<>>)
    ELSE HashVector(count - 1, ragged) \o [j \in 1 .. 20 |-> HashOctets[count]]

\* the file dictionaries of a multi-file torrent, each with its length as
\* decimal text and a path of one component
RECURSIVE FileEntries(_, _)
FileEntries(lengths, component) ==
    IF lengths = <<>> THEN <<>>
    ELSE <<"d">> \o BStr(KeyLength) \o IntToken(Head(lengths))
                 \o BStr(KeyPath) \o <<"l">> \o BStr(component) \o <<"e">> \o <<"e">>
         \o FileEntries(Tail(lengths), component)

\* a .torrent file: the piece length and the lengths are given as decimal
\* text, the announce URL, the name and the path component as octets
MkMetainfo(texts, piece_length_text, layout, count, ragged) ==
    <<"d">> \o BStr(KeyAnnounce) \o BStr(texts.announce)
            \o BStr(KeyInfo) \o <<"d">>
                \o (IF layout.multi
                    THEN BStr(KeyFiles) \o <<"l">> \o FileEntries(layout.files, texts.path)
                                        \o <<"e">>
                    ELSE BStr(KeyLength) \o IntToken(layout.length_text))
                \o BStr(KeyName) \o BStr(texts.name)
                \o BStr(KeyPieceLength) \o IntToken(piece_length_text)
                \o BStr(KeyPieces) \o BStr(HashVector(count, ragged))
            \o <<"e">>
    \o <<"e">>

PlainTexts == [announce |-> <<"u">>, name |-> <<"n">>, path |-> <<"f">>]

PieceLengthTexts == { <<"0">>, <<"8">>, <<"1", "6">>, <<"0", "1", "6">>, <<"-", "1">> }

\* single files of 0, 20, 40 and "-1" octets; files of 10, 25 and 5, and of 8
\* and 8 octets; files whose lengths add up to 2^64 + 1 and to 2^64
Layouts == { [multi |-> FALSE, length_text |-> <<"0">>],
             [multi |-> FALSE, length_text |-> <<"2", "0">>],
             [multi |-> FALSE, length_text |-> <<"4", "0">>],
             [multi |-> FALSE, length_text |-> <<"-", "1">>],
             [multi |-> TRUE, files |-> << <<"1", "0">>, <<"2", "5">>, <<"5">> >>],
             [multi |-> TRUE, files |-> << <<"8">>, <<"8">> >>],
             [multi |-> TRUE, files |-> << <<"-", "1">>, <<"2">> >>],
             [multi |-> TRUE, files |-> << DecimalDigits(I64_MAX), DecimalDigits(I64_MAX),
                                           <<"2">> >>] }

\* the layouts of the files whose texts vary
TextLayouts == { layout \in Layouts :
                     \/ ~layout.multi /\ layout.length_text = <<"4", "0">>
                     \/ layout.multi /\ layout.files = << <<"8">>, <<"8">> >> }

MetainfoFiles ==
    { MkMetainfo(PlainTexts, text, layout, count, ragged) :
          text \in PieceLengthTexts, layout \in Layouts,
          count \in 0 .. MaxHashes, ragged \in BOOLEAN }
    \cup { MkMetainfo(texts, <<"1", "6">>, layout, MaxHashes, FALSE) :
               texts \in [announce : OctetTexts, name : OctetTexts, path : OctetTexts],
               layout \in TextLayouts }

\* values as bencode writes them: an integer, an empty list, an empty
\* dictionary, an empty and a one-octet byte string
KeyTokens == { IntToken(<<"3">>), <<"l", "e">>, <<"d", "e">>, BStr(<<>>), BStr(<<"3">>),
               BStr(<<"0">>) }

ValueTokens == { IntToken(<<"3">>), <<"l", "e">> }

\* dictionaries of one and of two pairs whose key positions hold any of the
\* values above, in any order and with repetitions
DictionaryInputs ==
    { <<"d">> \o key \o value \o <<"e">> : key \in KeyTokens, value \in ValueTokens }
    \cup { <<"d">> \o k1 \o v1 \o k2 \o v2 \o <<"e">> :
               k1 \in KeyTokens, v1 \in ValueTokens, k2 \in KeyTokens, v2 \in ValueTokens }

\* no metainfo is loaded yet: there is no storage and no coordinator
NothingLoaded ==
    /\ torrent = [piece_length |-> 0, length |-> 0, multi |-> FALSE,
                  files |-> <<>>, pieces |-> <<>>]
    /\ payload = <<>>
    /\ file_map = <<>>
    /\ disk = <<>>
    /\ pieces = <<>>
    /\ download_queue = <<>>
    /\ stats = [total_pieces |-> 0, completed_pieces |-> 0, verified_pieces |-> 0,
                failed_pieces |-> 0, total_bytes |-> 0, downloaded_bytes |-> 0]
    /\ now = 0
    /\ panicked = FALSE
    /\ committed = <<>>
    /\ probe = NoProbe
    /\ held = {}
    /\ inflight = EmptyMap
    /\ corrupt_left = 0
    /\ calls = [thread \in Threads |-> NoCall]
    /\ holders = NoHolders(torrent)

InitCodec ==
    /\ NothingLoaded
    /\ metainfo \in ShortInputs \cup WideInputs \cup MetainfoFiles \cup DictionaryInputs
    /\ loaded = NotCalled

coordVars == <<disk, pieces, download_queue, stats, now, panicked, committed, probe>>

\* BencodeValue::decode(metainfo)
Decode ==
    /\ Alive
    /\ loaded' = [call |-> "decode", result |-> decode(metainfo)]
    /\ UNCHANGED <<fixedVars, coordVars, driverVars, metainfo, threadVars>>

\* encode_bencode of the value the last decode returned
Encode ==
    /\ Alive
    /\ loaded.call = "decode"
    /\ loaded.result.ok
    /\ loaded' = [call |-> "encode_bencode", value |-> loaded.result.value,
                  result |-> encode_bencode(loaded.result.value)]
    /\ UNCHANGED <<fixedVars, coordVars, driverVars, metainfo, threadVars>>

\* the results a call can have: one, or one for each way the program is built
Builds(result) == IF ByBuild(result) THEN {result.checked, result.wrapping} ELSE {result}

\* Torrent::from_bytes(metainfo); a panic ends the process
Load ==
    /\ Alive
    /\ \E result \in Builds(from_bytes(metainfo)) :
           /\ loaded' = [call |-> "from_bytes", result |-> result]
           /\ panicked' = (result = Panic)
    /\ UNCHANGED <<fixedVars, disk, pieces, download_queue, stats, now, committed, probe,
                   driverVars, metainfo, threadVars>>

NextCodec == Decode \/ Encode \/ Load

SpecCodec == InitCodec /\ [][NextCodec]_vars

-----------------------------------------------------------------------------
(* Claims on the codec and the loader                                      *)

\* C15 - Bencode round trip: whenever decode succeeded on the input and the
\* decoded value was encoded, the encoding is octet for octet the input.
RoundTrip ==
    loaded.call = "encode_bencode" => loaded.result = metainfo

\* the octets of the value that follows the first top-level key "info", as
\* they stand in the input; reader starts at a key of the top-level dictionary
RECURSIVE SpanFrom(_)
SpanFrom(reader) ==
    LET key == decode_from_reader(reader)
        value == decode_from_reader(key.rest)
    IN  IF key.value.type = "Bytes" /\ key.value.bytes = KeyInfo
        THEN SubSeq(key.rest, 1, Len(key.rest) - Len(value.rest))
        ELSE SpanFrom(value.rest)

InfoSpan(bytes) == SpanFrom(Tail(bytes))

\* from_bytes returned Ok on the input
Loaded == loaded.call = "from_bytes" /\ loaded.result # Panic /\ loaded.result.ok

\* C16 - Fingerprint over the original bytes: whenever from_bytes loaded the
\* input, the octets hashed into info_hash are the octets of the value keyed
\* "info" as they stand in the input.
FingerprintOfSpan ==
    Loaded =>
        /\ InfoBuf(metainfo).buf = InfoSpan(metainfo)
        /\ loaded.result.value.info_hash = Sha1Digest(InfoSpan(metainfo))

\* the input is an integer token: i, a text without e, then e
IsIntegerToken(bytes) ==
    /\ Len(bytes) >= 2
    /\ bytes[1] = "i"
    /\ bytes[Len(bytes)] = "e"
    /\ \A k \in 2 .. (Len(bytes) - 1) : bytes[k] # "e"

\* a canonical signed decimal: 0, or an optional '-' and digits that start
\* with a non-zero digit
CanonicalDecimal(text) ==
    LET digits == IF text # <<>> /\ Head(text) = "-" THEN Tail(text) ELSE text
    IN  \/ text = <<"0">>
        \/ /\ digits # <<>>
           /\ \A k \in DOMAIN digits : digits[k] \in Digits
           /\ digits[1] # "0"

\* a canonical signed decimal from -2^63 to 2^63 - 1
WithinI64(text) ==
    IF Head(text) = "-"
    THEN ~MagLess(I64_MIN, DigitValues(Tail(text)))
    ELSE ~MagLess(I64_MAX, DigitValues(text))

\* C17 - Canonical integers only: decode of an integer token succeeds exactly
\* when the text between i and e is 0 or a canonical signed decimal within
\* the signed 64-bit range; i03e, i-0e, ie and a leading '+' are rejected.
CanonicalIntegersOnly ==
    (loaded.call = "decode" /\ IsIntegerToken(metainfo)) =>
        LET text == SubSeq(metainfo, 2, Len(metainfo) - 1)
        IN  loaded.result.ok <=> (CanonicalDecimal(text) /\ WithinI64(text))

\* n times the magnitude p
RECURSIVE MagTimes(_, _)
MagTimes(n, p) == IF n = 0 THEN <<0>> ELSE MagAdd(p, MagTimes(n - 1, p))

\* n = ceil(l / p) for the magnitudes l and p, p not zero
IsCeilDiv(n, l, p) ==
    IF n = 0 THEN l = <<0>>
    ELSE MagLess(MagTimes(n - 1, p), l) /\ ~MagLess(MagTimes(n, p), l)

\* C18 - Piece count identity at load: every Torrent a successful from_bytes
\* returns has piece_length > 0 and as many piece hashes as
\* ceil(length / piece_length).
PieceCountAtLoad ==
    Loaded =>
        LET t == loaded.result.value
        IN  /\ t.piece_length # <<0>>
            /\ IsCeilDiv(Len(t.pieces), t.length, t.piece_length)

-----------------------------------------------------------------------------
(* Claims on the download queue and the request window                     *)

\* the members of a set of indices in ascending order
RECURSIVE Ascending(_)
Ascending(S) ==
    IF S = {} THEN <<>>
    ELSE LET least == CHOOSE i \in S : \A j \in S : i <= j
         IN  <<least>> \o Ascending(S \ {least})

\* what next_piece answers in the current state
NextPieceAnswer ==
    LET out == get_next_piece_to_download(Mgr)
    IN  /\ out.some <=> download_queue # <<>>
        /\ out.some => /\ out.index = Head(download_queue)
                       /\ out.m.download_queue = Tail(download_queue)
        /\ ~out.some => out.m = Mgr

\* the queue a coordinator constructed over the current download directory
\* starts with
InitialQueue ==
    new(torrent, file_map, disk).download_queue
        = Ascending({ index \in PieceIndices(torrent) :
                          is_piece_complete(torrent, file_map, disk, index) # "true" })

\* a step leaves the queue alone, takes its head, appends - exactly when a
\* verification failed - the failed piece behind all queued indices, or is a
\* rebuild_download_queue that starts the queue anew
QueueStep ==
    \/ /\ download_queue' = download_queue
       /\ stats'.failed_pieces = stats.failed_pieces
    \/ /\ download_queue # <<>>
       /\ download_queue' = Tail(download_queue)
       /\ stats'.failed_pieces = stats.failed_pieces
    \/ \E index \in PieceIndices(torrent) :
           /\ download_queue' = Append(download_queue, index)
           /\ stats'.failed_pieces = stats.failed_pieces + 1
           /\ pieces'[index] = reset(pieces[index])
    \/ /\ Rebuild
       /\ download_queue' = Ascending({ index \in PieceIndices(torrent) :
                                 is_piece_complete(torrent, file_map, disk, index) # "true" })

\* C19 - next_piece is FIFO: it answers none exactly when the queue is empty
\* and otherwise hands out and removes the head; a freshly constructed queue
\* is the ascending sequence of the pieces not complete in storage, and so is
\* a rebuilt one; the only other change to the queue is a failed piece
\* appended at the back.
FifoQueue ==
    /\ [](NextPieceAnswer /\ InitialQueue)
    /\ [][QueueStep]_vars

\* a piece failed verification while another piece was queued and now waits
\* behind it
FifoQueueSeen ==
    /\ download_queue = <<1, 0>>
    /\ stats.failed_pieces = 1
    /\ get_next_piece_to_download(Mgr).index = 1

-----------------------------------------------------------------------------
(* The request window of a piece with more blocks than requests allowed    *)

\* a single-file torrent of one piece of eleven blocks, the last one short
CapWorlds == { MkWorld(170000, FALSE, <<>>, 170000, 85000) }

InitCap ==
    \E w \in CapWorlds :
        Construct(w, EmptyDisk(build_file_map(w.torrent))) /\ corrupt_left = 0

\* the most blocks of the piece the peers answer
MaxAnswered == 1

\* a peer answers an outstanding request with the true octets
DeliverSome(info) ==
    /\ info.piece_index \in DOMAIN pieces
    /\ Cardinality(DOMAIN pieces[info.piece_index].blocks) < MaxAnswered
    /\ Deliver(info)

NextCap ==
    \/ \E d \in TickSteps : Tick(d)
    \/ \E piece_index \in PieceIndices(torrent) : NextBlockRequest(piece_index)
    \/ \E info \in AllDeclared(torrent) : DeliverSome(info)

SpecCap == InitCap /\ [][NextCap]_vars

\* the requests of a piece that are still outstanding at time t
Outstanding(p, t) == DOMAIN p.requested_blocks \ TimedOut(p, t)

\* C20 - Pending-request cap: no piece ever has more than
\* MAX_PENDING_REQUESTS entries in requested, whatever next_block_request
\* answers, and when MAX_PENDING_REQUESTS requests remain after reaping it
\* answers none and requests nothing, even though blocks are missing.
PendingCap ==
    \A piece_index \in PieceIndices(torrent) :
        /\ Cardinality(DOMAIN pieces[piece_index].requested_blocks) <= MAX_PENDING_REQUESTS
        /\ \A d \in CallDelays :
               \A out \in get_next_block_request(Mgr, piece_index, now + d) :
                   LET before == Outstanding(pieces[piece_index], now + d)
                       after == DOMAIN out.m.pieces[piece_index].requested_blocks
                   IN  /\ Cardinality(after) <= MAX_PENDING_REQUESTS
                       /\ Cardinality(before) = MAX_PENDING_REQUESTS =>
                              /\ ~out.some
                              /\ after = before

\* ten requests of the eleven-block piece are outstanding, the eleventh block
\* is missing, and next_block_request is called before any request times out
PendingCapSeen ==
    /\ Cardinality(DOMAIN pieces[0].requested_blocks) = MAX_PENDING_REQUESTS
    /\ pieces[0].missing_blocks # {}
    /\ Outstanding(pieces[0], now) = DOMAIN pieces[0].requested_blocks
    /\ \A out \in get_next_block_request(Mgr, 0, now) : ~out.some

-----------------------------------------------------------------------------
(* The coordinator over a piece that spans two files                        *)

\* a two-file torrent of one piece of two blocks: the piece is written with two
\* write_to_file calls, so a write can fail before the first or between them
SpanWorlds == { MkWorld(20000, TRUE, <<12000, 8000>>, 20000, 5000) }

InitSpan ==
    \E w \in SpanWorlds :
        \E c \in CoordStarts(w.torrent) :
            Construct(w, StartDisk(w, c)) /\ corrupt_left = 0

SpecSpan == InitSpan /\ [][Next]_vars

-----------------------------------------------------------------------------
(* Claims on the completion of a piece                                     *)

\* blocks a peer may send beside the declared ones: one octet at an offset no
\* declared block starts at, and one octet at the offset of each declared block
StrayBlocks ==
    { [info |-> BlockInfo(0, 1, 1), data |-> <<Run(1, 255)>>] }
    \cup { [info |-> info, data |-> <<Run(1, 255)>>] : info \in AllDeclared(torrent) }

\* every declared block of the piece is stored with its full length, and
\* nothing else is
AllReceived(q) ==
    /\ DOMAIN q.blocks = { info.begin : info \in DeclaredBlocks(q.index, q.length) }
    /\ \A info \in DeclaredBlocks(q.index, q.length) :
           BLen(q.blocks[info.begin].data) = info.length

\* C21 - Completion needs every block: whenever add_block sets a piece
\* Complete, every declared block of the piece is stored in full length; the
\* number of stored blocks alone never completes a piece.
CompleteMeansAllReceived ==
    \A block \in PeerBlocks \cup StrayBlocks :
        block.info.piece_index \in DOMAIN pieces =>
            LET p == pieces[block.info.piece_index]
                added == add_block(p, block)
            IN  (added.ok /\ p.state # "Complete" /\ added.piece.state = "Complete")
                    => AllReceived(added.piece)

\* C22 - Completion on the last block: when add_block stores a block after
\* which every declared block of a piece still being downloaded is stored in
\* full length, the piece is Complete after that call, whether or not the
\* blocks were in requested_blocks when they arrived.
CompletesWhenAllReceived ==
    \A block \in PeerBlocks :
        block.info.piece_index \in DOMAIN pieces =>
            LET p == pieces[block.info.piece_index]
                added == add_block(p, block)
            IN  (/\ p.state \in {"Pending", "InProgress"}
                 /\ added.ok
                 /\ AllReceived(added.piece))
                    => added.piece.state = "Complete"

\* two stored blocks of the piece share an octet
Overlapping(q) ==
    \E b1 \in DOMAIN q.blocks : \E b2 \in DOMAIN q.blocks :
        /\ b1 < b2
        /\ b2 < b1 + BLen(q.blocks[b1].data)

\* C23 - Overlap is an error: assemble_piece of a piece two of whose stored
\* blocks overlap returns an error, in every order of copying.
OverlapFailsAssembly ==
    \A block \in PeerBlocks \cup StrayBlocks :
        block.info.piece_index \in DOMAIN pieces =>
            LET added == add_block(pieces[block.info.piece_index], block)
            IN  (added.ok /\ Overlapping(added.piece))
                    => \A a \in assemble_piece(added.piece) : a # Panic /\ ~a.ok

-----------------------------------------------------------------------------
(* Claims on the coordinator's bookkeeping                                 *)

\* C24 - Invalid piece index: on_block with a block whose piece_index is no
\* index of a piece (the number of pieces or more) returns an error, does not
\* panic and changes nothing.
InvalidIndexRejected ==
    \A block \in PeerBlocks : \A fault \in WriteFaults :
        block.info.piece_index >= Len(torrent.pieces) =>
            \A out \in handle_block_received(torrent, file_map, disk, Mgr, block, fault) :
                /\ out.ret = "err"
                /\ out.m = Mgr
                /\ out.disk = disk

\* C25 - completed_pieces: in every reachable state stats.completed_pieces is
\* the number of pieces in state Complete (completed and not yet verified).
CompletedCountsComplete ==
    stats.completed_pieces
        = Cardinality({ index \in DOMAIN pieces : pieces[index].state = "Complete" })

\* C26 - Pending to InProgress: next_block_request on a Pending piece sets it
\* InProgress and returns a block; on a piece in any other state it leaves
\* the state as it is; for an index that is no piece it returns none and
\* changes nothing.  It never touches another piece, the queue or the stats.
RequestStartsPiece ==
    \A piece_index \in 0 .. (Len(torrent.pieces) + 1) :
        \A d \in CallDelays :
            \A out \in get_next_block_request(Mgr, piece_index, now + d) :
                /\ out.m.download_queue = download_queue
                /\ out.m.stats = stats
                /\ \A other \in DOMAIN pieces :
                       other # piece_index => out.m.pieces[other] = pieces[other]
                /\ IF piece_index \notin DOMAIN pieces
                   THEN ~out.some /\ out.m = Mgr
                   ELSE IF pieces[piece_index].state = "Pending"
                   THEN out.some /\ out.m.pieces[piece_index].state = "InProgress"
                   ELSE out.m.pieces[piece_index].state = pieces[piece_index].state

\* a first request has set the piece InProgress: one block is outstanding and
\* the other one still missing
RequestStartsPieceSeen ==
    /\ pieces[0].state = "InProgress"
    /\ Cardinality(DOMAIN pieces[0].requested_blocks) = 1
    /\ Cardinality(pieces[0].missing_blocks) = 1
    /\ DOMAIN pieces[0].blocks = {}

\* C27 - reset restores the initial piece: reset of any piece, in whatever
\* state, gives state Pending, no requested and no received block, and as
\* missing exactly the blocks Piece::new produces for the same index and
\* length; index, length and hash stay.
ResetRestores ==
    \A index \in DOMAIN pieces :
        LET p == pieces[index]
            r == reset(p)
        IN  /\ r.state = "Pending"
            /\ DOMAIN r.requested_blocks = {}
            /\ DOMAIN r.blocks = {}
            /\ r.missing_blocks = PieceNew(p.index, p.length, p.hash).missing_blocks
            /\ r = PieceNew(p.index, p.length, p.hash)

\* a hash mismatch has reset a piece that had a stored and an outstanding block
\* before; the peers have sent the next block already
ResetRestoresSeen ==
    /\ stats.failed_pieces > 0
    /\ pieces[0].state = "InProgress"
    /\ DOMAIN pieces[0].blocks # {}
    /\ DOMAIN pieces[0].requested_blocks # {}
    /\ reset(pieces[0]) # pieces[0]

----------------------------------------------------------------------------
(* Pieces of every size around the block size                              *)

\* piece lengths below, at and above one and two blocks
PieceLengths == { 1, 16383, 16384, 16385, 32768, 40000 }

\* one piece of each length, and two pieces the last of which is one octet long
PieceWorlds ==
    { MkWorld(length, FALSE, <<>>, length, length) : length \in PieceLengths }
    \cup { MkWorld(16385, FALSE, <<>>, 16386, 16386) }

InitPiece ==
    \E w \in PieceWorlds :
        Construct(w, EmptyDisk(build_file_map(w.torrent))) /\ corrupt_left = 0

SpecPiece == InitPiece /\ [][NextFull]_vars

RECURSIVE SumLengths(_)
SumLengths(infos) ==
    IF infos = {} THEN 0
    ELSE LET info == CHOOSE x \in infos : TRUE
         IN  info.length + SumLengths(infos \ {info})

\* C28 - Piece::new for a length L > 0 gives state Pending, no requested and no
\* received block, and ceil(L / 16384) missing blocks that begin at 0, 16384,
\* 2 * 16384, ..., are 16384 long except for a last one that may be shorter,
\* are pairwise disjoint and are L octets long together.
PieceNewCovers ==
    \A index \in DOMAIN pieces :
        LET L      == pieces[index].length
            p      == PieceNew(index, L, pieces[index].hash)
            count  == (L + 16383) \div 16384
        IN  L > 0 =>
              /\ p.state = "Pending"
              /\ DOMAIN p.requested_blocks = {}
              /\ DOMAIN p.blocks = {}
              /\ Cardinality(p.missing_blocks) = count
              /\ { info.begin : info \in p.missing_blocks }
                     = { i * 16384 : i \in 0 .. (count - 1) }
              /\ \A info \in p.missing_blocks :
                     /\ info.piece_index = index
                     /\ info.length > 0
                     /\ info.length <= 16384
                     /\ info.begin + 16384 < L => info.length = 16384
                     /\ info.begin + info.length <= L
              /\ \A a, b \in p.missing_blocks :
                     a # b => \/ a.begin + a.length <= b.begin
                              \/ b.begin + b.length <= a.begin
              /\ SumLengths(p.missing_blocks) = L

\* a piece of 40000 octets as constructed: blocks at 0, 16384 and 32768, the
\* last of 7232 octets
PieceNewCoversSeen ==
    /\ Len(torrent.pieces) = 1
    /\ pieces[0] = PieceNew(0, 40000, torrent.pieces[1])
    /\ pieces[0].missing_blocks = { BlockInfo(0, 0, 16384), BlockInfo(0, 16384, 16384),
                                    BlockInfo(0, 32768, 7232) }

\* C29 - for a metainfo whose hash vector has ceil(length / piece_length)
\* entries, BlockManager::new gives every piece but the last the length
\* piece_length and the last piece length - (n - 1) * piece_length, which is
\* above 0 and at most piece_length; the lengths of the pieces sum to length.
PieceLengthsSum ==
    LET n == Len(torrent.pieces)
        m == new(torrent, file_map, disk)
    IN  (torrent.piece_length > 0 /\ torrent.length > 0 /\
         n = (torrent.length + torrent.piece_length - 1) \div torrent.piece_length) =>
          /\ DOMAIN m.pieces = 0 .. (n - 1)
          /\ DOMAIN pieces = 0 .. (n - 1)
          /\ \A index \in 0 .. (n - 1) :
                 /\ pieces[index].length = m.pieces[index].length
                 /\ index < n - 1 => m.pieces[index].length = torrent.piece_length
                 /\ index = n - 1 =>
                        /\ m.pieces[index].length =
                               torrent.length - (n - 1) * torrent.piece_length
                        /\ m.pieces[index].length > 0
                        /\ m.pieces[index].length <= torrent.piece_length
          /\ SumSeq([i \in 1 .. n |-> m.pieces[i - 1].length]) = torrent.length

\* 100 octets in pieces of 40: three pieces, the last of 20 octets, after a
\* piece has been written to the storage
PieceLengthsSumSeen ==
    /\ torrent.length = 100
    /\ torrent.piece_length = 40
    /\ Len(torrent.pieces) = 3
    /\ pieces[0].length = 40
    /\ pieces[1].length = 40
    /\ pieces[2].length = 20
    /\ \E k \in DOMAIN disk : disk[k].exists

\* every key position of every dictionary inside value holds a byte string
RECURSIVE BytesKeysOnly(_)
BytesKeysOnly(value) ==
    CASE value.type = "Dictionary" ->
             \A k \in DOMAIN value.items :
                 /\ k % 2 = 1 => value.items[k].type = "Bytes"
                 /\ BytesKeysOnly(value.items[k])
      [] value.type = "List" ->
             \A k \in DOMAIN value.items : BytesKeysOnly(value.items[k])
      [] OTHER -> TRUE

\* C30 - Dictionary keys are byte strings: decode fails on a dictionary with
\* an integer, a list or a dictionary in a key position, so every dictionary
\* decode returns has byte strings as keys; it keeps the pairs in the order
\* of the input, neither sorted nor deduplicated.
DictionaryKeysAreBytes ==
    (loaded.call = "decode" /\ loaded.result.ok) =>
        /\ BytesKeysOnly(loaded.result.value)
        /\ metainfo \in DictionaryInputs =>
               /\ loaded.result.value.type = "Dictionary"
               /\ EncodeAll(loaded.result.value.items)
                      = SubSeq(metainfo, 2, Len(metainfo) - 1)

----------------------------------------------------------------------------
(* Claims on the order of receipt and on the counters of the coordinator   *)

\* the orders in which the blocks of the set infos can arrive, each once
Orders(infos) ==
    { order \in [1 .. Cardinality(infos) -> infos] :
          \A i, j \in DOMAIN order : i # j => order[i] # order[j] }

\* add_block of the blocks of `order`, one after the other, with the octets
\* sent(info) for the block info
RECURSIVE IngestAll(_, _, _)
IngestAll(p, order, sent) ==
    IF order = <<>> THEN p
    ELSE IngestAll(add_block(p, sent[Head(order)]).piece, Tail(order), sent)

\* what the peers send for the blocks of infos: for each block its true
\* octets or as many octets of another value
Sendings(infos) ==
    { [info \in infos |-> IF good[info] THEN GoodBlock(torrent, payload, info)
                                        ELSE BadBlock(info)]
      : good \in [infos -> BOOLEAN] }

\* C31 - receipt-order independence: when every declared block of a piece is
\* delivered once with fixed octets, the piece and the buffer assemble_piece
\* returns are the same for every order of delivery; with the true octets of
\* all blocks and no block left missing the buffer is the true piece.
OrderIndependence ==
    \A index \in DOMAIN pieces :
        LET p     == pieces[index]
            infos == DeclaredBlocks(p.index, p.length)
        IN  \A sent \in Sendings(infos) :
                \A o1, o2 \in Orders(infos) :
                    LET q1 == IngestAll(p, o1, sent)
                        q2 == IngestAll(p, o2, sent)
                    IN  /\ q1 = q2
                        /\ assemble_piece(q1) = assemble_piece(q2)
                        /\ Cardinality(assemble_piece(q1)) = 1
                        /\ (q1.missing_blocks = {}
                            /\ \A info \in infos : sent[info] = GoodBlock(torrent, payload, info))
                           => assemble_piece(q1)
                                  = {[ok |-> TRUE, data |-> PieceData(torrent, payload, index)]}

\* the three blocks of a piece of 40000 octets are requested and the last one
\* has arrived before the other two
OrderIndependenceSeen ==
    /\ Len(torrent.pieces) = 1
    /\ pieces[0].length = 40000
    /\ pieces[0].missing_blocks = {}
    /\ DOMAIN pieces[0].blocks = {32768}
    /\ Cardinality(DOMAIN pieces[0].requested_blocks) = 2

\* the pieces the coordinator holds as Verified
VerifiedPieces == { index \in DOMAIN pieces : pieces[index].state = "Verified" }

\* C32 - stats.verified_pieces is the number of pieces whose state is
\* Verified in every reachable state, so it never exceeds total_pieces and
\* get_missing_piece_count never subtracts below zero.
VerifiedCountExact ==
    /\ stats.verified_pieces = Cardinality(VerifiedPieces)
    /\ stats.verified_pieces <= stats.total_pieces
    /\ get_missing_piece_count(Mgr) = stats.total_pieces - stats.verified_pieces

\* C33 - is_download_complete answers true exactly when every piece is in
\* state Verified: never while a piece is Pending, InProgress or Complete.
CompleteIffAllVerified ==
    is_download_complete(Mgr) <=> (\A index \in DOMAIN pieces : pieces[index].state = "Verified")

\* the descriptors of the blocks a piece has stored
ReceivedInfos(p) == { p.blocks[begin].info : begin \in DOMAIN p.blocks }

\* C34 - in every reachable state the received blocks, the missing set and
\* the requested map of a piece are pairwise disjoint, and
\* get_next_block_request never returns a block the piece has stored.
BlockSetsDisjoint ==
    \A index \in DOMAIN pieces :
        LET p == pieces[index]
        IN  /\ ReceivedInfos(p) \cap p.missing_blocks = {}
            /\ ReceivedInfos(p) \cap DOMAIN p.requested_blocks = {}
            /\ p.missing_blocks \cap DOMAIN p.requested_blocks = {}
            /\ \A d \in CallDelays :
                   \A out \in get_next_block_request(Mgr, index, now + d) :
                       out.some => out.block \notin ReceivedInfos(p)

\* C35 - get_next_block_request returns no block for a piece in state
\* Verified, whether the piece was verified in this session or marked by the
\* resume scan of the construction.
NoRequestForVerified ==
    \A index \in DOMAIN pieces :
        pieces[index].state = "Verified" =>
            \A d \in CallDelays :
                \A out \in get_next_block_request(Mgr, index, now + d) : ~out.some

\* C36 - in every reachable state the download queue holds no piece index
\* twice and no index of a piece in state Verified.
QueueSound ==
    /\ \A i, j \in DOMAIN download_queue :
           i # j => download_queue[i] # download_queue[j]
    /\ \A i \in DOMAIN download_queue :
           pieces[download_queue[i]].state # "Verified"

\* C37 - stats.downloaded_bytes never exceeds stats.total_bytes, also for
\* pieces and last blocks shorter than the block size and for pieces the
\* resume scan credited.
DownloadedWithinTotal == stats.downloaded_bytes <= stats.total_bytes

\* C38 - rebuild_download_queue is idempotent: a second call over the same
\* storage leaves the download queue, the piece states, verified_pieces and
\* downloaded_bytes as the first call left them.
RebuildIdempotent ==
    LET once  == rebuild_download_queue(torrent, file_map, disk, Mgr)
        twice == rebuild_download_queue(torrent, file_map, disk, once)
    IN  /\ twice.download_queue = once.download_queue
        /\ \A index \in DOMAIN pieces : twice.pieces[index].state = once.pieces[index].state
        /\ twice.stats.verified_pieces = once.stats.verified_pieces
        /\ twice.stats.downloaded_bytes = once.stats.downloaded_bytes

-----------------------------------------------------------------------------
(* Concurrent callers: the calls of the coordinator step by step, with the *)
(* mutexes of the pieces and of the storage                                *)

\* a lock that never blocks
MutexFree_always(holding) == TRUE

\* Mutex::lock returns when no thread holds the mutex, and blocks until then
MutexFree(holding) == holding = {}

LockPiece(thread, index) == [holders EXCEPT !.piece[index] = @ \cup {thread}]

UnlockPiece(hs, thread, index) == [hs EXCEPT !.piece[index] = @ \ {thread}]

LockStorage(thread) == [holders EXCEPT !.storage = @ \cup {thread}]

UnlockStorage(hs, thread) == [hs EXCEPT !.storage = @ \ {thread}]

\* the mutexes a thread holds
HeldPieces(thread) == { index \in DOMAIN holders.piece : thread \in holders.piece[index] }

HoldsStorage(thread) == thread \in holders.storage

Idle(thread) == calls[thread].at = "idle"

\* a method that takes &self can be called while other &self calls run; a
\* method that takes &mut self runs alone
SharedOps == {"get_next_block_request", "get_piece_state", "has_piece"}

SharedCallAllowed == \A other \in Threads : ~Idle(other) => calls[other].op \in SharedOps

ExclusiveCallAllowed == \A other \in Threads : Idle(other)

\* the piece at index is reset: the blocks handed out for it before are no
\* longer outstanding
Forget(cs, index) ==
    [thread \in Threads |->
        IF cs[thread].op = "get_next_block_request" /\ cs[thread].at = "idle"
           /\ cs[thread].some /\ cs[thread].block.piece_index = index
        THEN NoCall ELSE cs[thread]]

\* the call of the thread is over: what it returned
Return(thread, result) == [calls EXCEPT ![thread] = result]

\* get_next_block_request(piece_index): the bound check, before any lock
CallNextBlockRequest(thread, piece_index) ==
    /\ Alive
    /\ Idle(thread)
    /\ SharedCallAllowed
    /\ calls' = IF piece_index >= Cardinality(DOMAIN pieces)
                THEN Return(thread, [at |-> "idle", op |-> "get_next_block_request",
                                     some |-> FALSE])
                ELSE [calls EXCEPT ![thread] =
                         [at |-> "lock_piece", op |-> "get_next_block_request",
                          index |-> piece_index]]
    /\ UNCHANGED <<fixedVars, coordVars, codecVars, driverVars, holders>>

\* self.pieces[piece_index].lock()
NextBlockRequestLock(thread) ==
    /\ calls[thread].at = "lock_piece"
    /\ calls[thread].op = "get_next_block_request"
    /\ MutexFree(holders.piece[calls[thread].index])
    /\ holders' = LockPiece(thread, calls[thread].index)
    /\ calls' = [calls EXCEPT ![thread].at = "pick"]
    /\ UNCHANGED <<fixedVars, coordVars, codecVars, driverVars>>

\* the reads of the body: the state, the timed-out requests and the block
\* the iterator of missing_blocks yields
NextBlockRequestPick(thread) ==
    /\ calls[thread].at = "pick"
    /\ \E out \in get_next_block_request(Mgr, calls[thread].index, now) :
           calls' = [calls EXCEPT ![thread] =
                        [at |-> "store", op |-> "get_next_block_request",
                         index |-> calls[thread].index,
                         piece |-> out.m.pieces[calls[thread].index],
                         some |-> out.some, block |-> out.block, time |-> now]]
    /\ UNCHANGED <<fixedVars, coordVars, codecVars, driverVars, holders>>

\* the writes of the body, and the return, which drops the guard
NextBlockRequestStore(thread) ==
    /\ calls[thread].at = "store"
    /\ pieces' = [pieces EXCEPT ![calls[thread].index] = calls[thread].piece]
    /\ holders' = UnlockPiece(holders, thread, calls[thread].index)
    /\ calls' = Return(thread,
                       IF calls[thread].some
                       THEN [at |-> "idle", op |-> "get_next_block_request", some |-> TRUE,
                             block |-> calls[thread].block, time |-> calls[thread].time]
                       ELSE [at |-> "idle", op |-> "get_next_block_request",
                             some |-> FALSE])
    /\ UNCHANGED <<fixedVars, disk, download_queue, stats, now, panicked, committed, probe,
                   codecVars, driverVars>>

\* handle_block_received(block): the bound check and the indexing, before
\* any lock
CallBlockReceived(thread, block) ==
    /\ Alive
    /\ Idle(thread)
    /\ ExclusiveCallAllowed
    /\ LET piece_index == block.info.piece_index
       IN  IF IndexRejected(Mgr, piece_index)
           THEN /\ calls' = Return(thread, NoCall)
                /\ UNCHANGED panicked
           ELSE IF piece_index \notin DOMAIN pieces
           THEN /\ calls' = Return(thread, NoCall)
                /\ panicked' = TRUE
           ELSE /\ calls' = [calls EXCEPT ![thread] =
                                [at |-> "lock_piece", op |-> "handle_block_received",
                                 index |-> piece_index, block |-> block,
                                 data |-> NoData]]
                /\ UNCHANGED panicked
    /\ UNCHANGED <<fixedVars, disk, pieces, download_queue, stats, now, committed, probe,
                   codecVars, driverVars, holders>>

\* piece_arc.lock() in handle_block_received
BlockReceivedLock(thread) ==
    /\ calls[thread].at = "lock_piece"
    /\ calls[thread].op = "handle_block_received"
    /\ MutexFree(holders.piece[calls[thread].index])
    /\ holders' = LockPiece(thread, calls[thread].index)
    /\ calls' = [calls EXCEPT ![thread].at = "add"]
    /\ UNCHANGED <<fixedVars, coordVars, codecVars, driverVars>>

\* handle_block_received without the drop of the guard
HeldIntoVerify_kept(hs, thread, index) == hs

\* the mutexes the thread holds when handle_block_received calls
\* verify_and_write_piece: drop(piece) has released the piece
HeldIntoVerify(hs, thread, index) == UnlockPiece(hs, thread, index)

\* add_block under the lock and the assignment of downloaded_bytes; an error
\* returns (the guard is dropped), a piece now Complete goes on to
\* verify_and_write_piece; a sum that overflows panics in a build with
\* overflow checks (the unwinding drops the guard)
BlockReceivedAdd(thread) ==
    /\ calls[thread].at = "add"
    /\ LET index == calls[thread].index
           added == add_block(pieces[index], calls[thread].block)
       IN  \E checked \in IF added.overflow /\ ~Wrapped(Mgr) THEN BOOLEAN ELSE {FALSE} :
           IF checked
           THEN /\ panicked' = TRUE
                /\ holders' = UnlockPiece(holders, thread, index)
                /\ calls' = Return(thread, NoCall)
                /\ UNCHANGED <<pieces, stats>>
           ELSE IF ~added.ok
           THEN /\ pieces' = [pieces EXCEPT ![index] = added.piece]
                /\ holders' = UnlockPiece(holders, thread, index)
                /\ calls' = Return(thread, NoCall)
                /\ UNCHANGED <<stats, panicked>>
           ELSE /\ pieces' = [pieces EXCEPT ![index] = added.piece]
                /\ stats' = [stats EXCEPT !.downloaded_bytes =
                                Cardinality(DOMAIN added.piece.blocks) * BLOCK_SIZE]
                /\ IF added.piece.state = "Complete"
                   THEN /\ holders' = HeldIntoVerify(holders, thread, index)
                        /\ calls' = [calls EXCEPT ![thread].at = "verify_lock"]
                   ELSE /\ holders' = UnlockPiece(holders, thread, index)
                        /\ calls' = Return(thread, NoCall)
                /\ UNCHANGED panicked
    /\ UNCHANGED <<fixedVars, disk, download_queue, now, committed, probe,
                   codecVars, driverVars>>

\* piece_arc.lock() in verify_and_write_piece
VerifyLock(thread) ==
    /\ calls[thread].at = "verify_lock"
    /\ MutexFree(holders.piece[calls[thread].index])
    /\ holders' = LockPiece(thread, calls[thread].index)
    /\ calls' = [calls EXCEPT ![thread].at = "verify"]
    /\ UNCHANGED <<fixedVars, coordVars, codecVars, driverVars>>

\* the state check, assemble_piece and verify_hash; every error return drops
\* the guard, and so does the unwinding of a panic of assemble_piece; a hash
\* mismatch resets the piece and queues it
Verify(thread) ==
    /\ calls[thread].at = "verify"
    /\ LET index == calls[thread].index
           p     == pieces[index]
           err   == Return(thread, NoCall)
       IN  IF p.state # "Complete"
           THEN /\ holders' = UnlockPiece(holders, thread, index)
                /\ calls' = err
                /\ UNCHANGED <<pieces, download_queue, stats, committed, panicked>>
           ELSE \E a \in assemble_piece(p) :
                    IF a = Panic
                    THEN /\ panicked' = TRUE
                         /\ holders' = UnlockPiece(holders, thread, index)
                         /\ calls' = err
                         /\ UNCHANGED <<pieces, download_queue, stats, committed>>
                    ELSE IF ~a.ok
                    THEN /\ holders' = UnlockPiece(holders, thread, index)
                         /\ calls' = err
                         /\ UNCHANGED <<pieces, download_queue, stats, committed, panicked>>
                    ELSE IF ~HashGate(p, a.data)
                    THEN /\ WithinBounds(OnHashMismatch(Mgr, index))
                         /\ pieces' = OnHashMismatch(Mgr, index).pieces
                         /\ download_queue' = OnHashMismatch(Mgr, index).download_queue
                         /\ stats' = OnHashMismatch(Mgr, index).stats
                         /\ Record(OnHashMismatch(Mgr, index), index, NoData)
                         /\ holders' = UnlockPiece(holders, thread, index)
                         /\ calls' = Forget(err, index)
                         /\ UNCHANGED panicked
                    ELSE /\ calls' = [calls EXCEPT ![thread].at = "lock_storage",
                                                   ![thread].data = a.data]
                         /\ UNCHANGED <<pieces, download_queue, stats, committed, holders,
                                        panicked>>
    /\ UNCHANGED <<fixedVars, disk, now, probe, codecVars, driverVars>>

\* self.storage.lock() in verify_and_write_piece, the piece's guard held
VerifyLockStorage(thread) ==
    /\ calls[thread].at = "lock_storage"
    /\ calls[thread].op \in {"handle_block_received", "verify_and_write_piece"}
    /\ MutexFree(holders.storage)
    /\ holders' = LockStorage(thread)
    /\ calls' = [calls EXCEPT ![thread].at = "write"]
    /\ UNCHANGED <<fixedVars, coordVars, codecVars, driverVars>>

\* write_piece and the update of the state; both guards are dropped at the
\* return, also at the error return of the ? operator
VerifyWrite(thread) ==
    /\ calls[thread].at = "write"
    /\ LET index == calls[thread].index
       IN  \E fault \in WriteFaults :
               LET w == write_piece(torrent, file_map, disk, index, calls[thread].data, fault)
                   m == IF w.ok THEN OnWritten(Mgr, index) ELSE OnWriteError(Mgr, index)
               IN  /\ WithinBounds(m)
                   /\ Install(m, w.disk)
                   /\ Record(m, index, IF w.ok THEN calls[thread].data ELSE NoData)
                   /\ holders' = UnlockStorage(UnlockPiece(holders, thread, index), thread)
                   /\ calls' = Return(thread, NoCall)
    /\ UNCHANGED <<fixedVars, now, panicked, probe, codecVars, driverVars>>

\* rebuild_download_queue(): the queue is cleared, before any lock
CallRebuild(thread) ==
    /\ Alive
    /\ Idle(thread)
    /\ ExclusiveCallAllowed
    /\ download_queue' = <<>>
    /\ calls' = [calls EXCEPT ![thread] =
                    [at |-> "lock_storage", op |-> "rebuild_download_queue", index |-> 0]]
    /\ UNCHANGED <<fixedVars, disk, pieces, stats, now, panicked, committed, probe,
                   codecVars, driverVars, holders>>

\* self.storage.lock() in rebuild_download_queue; with no piece the loop is
\* empty and the call returns
RebuildLockStorage(thread) ==
    /\ calls[thread].at = "lock_storage"
    /\ calls[thread].op = "rebuild_download_queue"
    /\ MutexFree(holders.storage)
    /\ IF Cardinality(DOMAIN pieces) = 0
       THEN /\ calls' = Return(thread, NoCall)
            /\ UNCHANGED holders
       ELSE /\ holders' = LockStorage(thread)
            /\ calls' = [calls EXCEPT ![thread].at = "scan_lock"]
    /\ UNCHANGED <<fixedVars, coordVars, codecVars, driverVars>>

\* piece_arc.lock() in the loop, the storage's guard held
RebuildLockPiece(thread) ==
    /\ calls[thread].at = "scan_lock"
    /\ MutexFree(holders.piece[calls[thread].index])
    /\ holders' = LockPiece(thread, calls[thread].index)
    /\ calls' = [calls EXCEPT ![thread].at = "scan"]
    /\ UNCHANGED <<fixedVars, coordVars, codecVars, driverVars>>

\* one iteration of the loop: the piece is marked Verified and counted, or
\* queued; the piece's guard is dropped at the end of the iteration and the
\* storage's guard after the last one
RebuildScan(thread) ==
    /\ calls[thread].at = "scan"
    /\ LET index == calls[thread].index
           last  == index + 1 >= Cardinality(DOMAIN pieces)
           m     == IF is_piece_complete(torrent, file_map, disk, index) = "true"
                    THEN [Mgr EXCEPT !.pieces[index].state = "Verified",
                                     !.stats.verified_pieces = @ + 1,
                                     !.stats.downloaded_bytes = @ + pieces[index].length]
                    ELSE [Mgr EXCEPT !.download_queue = Append(@, index)]
       IN  /\ WithinBounds(m)
           /\ m.stats.downloaded_bytes <= (1 + MaxRecommit) * BLOCK_SIZE + stats.total_bytes
           /\ Install(m, disk)
           /\ committed' = [committed EXCEPT ![index] =
                               IF m.pieces[index].state # "Verified" THEN NoData
                               ELSE IF pieces[index].state = "Verified" THEN @
                               ELSE read_piece(torrent, file_map, disk, index).data]
           /\ holders' = IF last
                         THEN UnlockStorage(UnlockPiece(holders, thread, index), thread)
                         ELSE UnlockPiece(holders, thread, index)
           /\ calls' = IF last
                       THEN Return(thread, NoCall)
                       ELSE [calls EXCEPT ![thread].at = "scan_lock",
                                          ![thread].index = index + 1]
    /\ UNCHANGED <<fixedVars, now, panicked, probe, codecVars, driverVars>>

\* get_next_piece_to_download(): the head of the queue is popped; the call
\* takes no mutex
CallNextPiece(thread) ==
    /\ Alive
    /\ Idle(thread)
    /\ ExclusiveCallAllowed
    /\ download_queue' = get_next_piece_to_download(Mgr).m.download_queue
    /\ calls' = Return(thread, NoCall)
    /\ UNCHANGED <<fixedVars, disk, pieces, stats, now, panicked, committed, probe,
                   codecVars, driverVars, holders>>

\* verify_and_write_piece(piece_index) called directly: the indexing, which
\* panics for an index that names no piece, before any lock
CallVerify(thread, piece_index) ==
    /\ Alive
    /\ Idle(thread)
    /\ ExclusiveCallAllowed
    /\ IF piece_index \notin DOMAIN pieces
       THEN /\ calls' = Return(thread, NoCall)
            /\ panicked' = TRUE
       ELSE /\ calls' = [calls EXCEPT ![thread] =
                            [at |-> "verify_lock", op |-> "verify_and_write_piece",
                             index |-> piece_index, data |-> NoData]]
            /\ UNCHANGED panicked
    /\ UNCHANGED <<fixedVars, disk, pieces, download_queue, stats, now, committed, probe,
                   codecVars, driverVars, holders>>

\* the calls that lock a piece to read its state
ReadOps == {"get_piece_state", "has_piece"}

\* get_piece_state(piece_index) and has_piece(piece_index): the bound check,
\* before any lock
CallRead(thread, op, piece_index) ==
    /\ Alive
    /\ Idle(thread)
    /\ SharedCallAllowed
    /\ calls' = IF piece_index >= Cardinality(DOMAIN pieces)
                THEN Return(thread, NoCall)
                ELSE [calls EXCEPT ![thread] =
                         [at |-> "lock_piece", op |-> op, index |-> piece_index]]
    /\ UNCHANGED <<fixedVars, coordVars, codecVars, driverVars, holders>>

\* self.pieces[piece_index].lock() in get_piece_state and has_piece
ReadLock(thread) ==
    /\ calls[thread].at = "lock_piece"
    /\ calls[thread].op \in ReadOps
    /\ MutexFree(holders.piece[calls[thread].index])
    /\ holders' = LockPiece(thread, calls[thread].index)
    /\ calls' = [calls EXCEPT ![thread].at = "read"]
    /\ UNCHANGED <<fixedVars, coordVars, codecVars, driverVars>>

\* the read of the state and the return, which drops the guard
ReadReturn(thread) ==
    /\ calls[thread].at = "read"
    /\ holders' = UnlockPiece(holders, thread, calls[thread].index)
    /\ calls' = Return(thread, NoCall)
    /\ UNCHANGED <<fixedVars, coordVars, codecVars, driverVars>>

\* the clock moves while calls are in progress
ThreadTick(d) ==
    /\ Alive
    /\ now + d <= MaxTime
    /\ now' = now + d
    /\ UNCHANGED <<fixedVars, disk, pieces, download_queue, stats, panicked, committed, probe,
                   codecVars, driverVars, threadVars>>

\* one piece of two blocks
ThreadWorlds == { MkWorld(20000, FALSE, <<>>, 20000, 5000) }

InitThreads ==
    \E w \in ThreadWorlds :
        \E c \in CoordStarts(w.torrent) :
            Construct(w, StartDisk(w, c)) /\ corrupt_left = 0

\* the blocks the peers deliver to the concurrent callers
ThreadBlocks ==
    { GoodBlock(torrent, payload, info) : info \in AllDeclared(torrent) }
    \cup { BadBlock(info) : info \in AllDeclared(torrent) }
    \cup { BadBlock(BlockInfo(Len(torrent.pieces), 0, 1)),
           BadBlock(BlockInfo(Len(torrent.pieces) + 1, 0, 1)) }

NextThreads ==
    \/ \E d \in TickSteps : ThreadTick(d)
    \/ \E thread \in Threads :
           \/ \E piece_index \in 0 .. Len(torrent.pieces) :
                  CallNextBlockRequest(thread, piece_index)
           \/ NextBlockRequestLock(thread)
           \/ NextBlockRequestPick(thread)
           \/ NextBlockRequestStore(thread)
           \/ \E block \in ThreadBlocks : CallBlockReceived(thread, block)
           \/ BlockReceivedLock(thread)
           \/ BlockReceivedAdd(thread)
           \/ VerifyLock(thread)
           \/ Verify(thread)
           \/ VerifyLockStorage(thread)
           \/ VerifyWrite(thread)

SpecThreads == InitThreads /\ [][NextThreads]_vars

\* one piece of one block over two files
LockWorlds == { MkWorld(10000, TRUE, <<6000, 4000>>, 10000, 2500) }

InitLocks ==
    \E w \in LockWorlds :
        \E c \in CoordStarts(w.torrent) :
            Construct(w, StartDisk(w, c)) /\ corrupt_left = 0

\* the calls above and the other calls that lock a mutex, or that change
\* what the calls under lock read: rebuild_download_queue,
\* get_next_piece_to_download, a direct verify_and_write_piece,
\* get_piece_state and has_piece
NextLocks ==
    \/ NextThreads
    \/ \E thread \in Threads :
           \/ CallRebuild(thread)
           \/ RebuildLockStorage(thread)
           \/ RebuildLockPiece(thread)
           \/ RebuildScan(thread)
           \/ CallNextPiece(thread)
           \/ \E piece_index \in 0 .. Len(torrent.pieces) : CallVerify(thread, piece_index)
           \/ \E op \in ReadOps :
                  \E piece_index \in 0 .. Len(torrent.pieces) :
                      CallRead(thread, op, piece_index)
           \/ ReadLock(thread)
           \/ ReadReturn(thread)

SpecLocks == InitLocks /\ [][NextLocks]_vars

\* the thread is back from a get_next_block_request that returned a block
GotBlock(thread) ==
    /\ calls[thread].at = "idle"
    /\ calls[thread].op = "get_next_block_request"
    /\ calls[thread].some

\* C39 - concurrent calls of get_next_block_request never return the same
\* block descriptor to two callers, unless the request of the first one had
\* timed out when the second one asked or the piece was reset in between;
\* while a caller is between its reads and its writes of a piece it is the
\* only holder of the piece's mutex.
NoDoubleIssue ==
    /\ \A t1, t2 \in Threads :
           (t1 # t2 /\ GotBlock(t1) /\ GotBlock(t2)
            /\ calls[t1].block = calls[t2].block /\ calls[t1].time <= calls[t2].time)
           => calls[t2].time - calls[t1].time > REQUEST_TIMEOUT
    /\ \A thread \in Threads :
           calls[thread].at \in {"pick", "store"}
           => holders.piece[calls[thread].index] = {thread}

\* two callers were in get_next_block_request for the same piece at the same
\* time and are back with the two different blocks of the piece
NoDoubleIssueSeen ==
    /\ GotBlock(1)
    /\ GotBlock(2)
    /\ calls[1].block # calls[2].block
    /\ calls[1].block.piece_index = calls[2].block.piece_index
    /\ calls[1].time = calls[2].time

\* the positions at which a thread is inside Mutex::lock, and the holders of
\* the mutex it asks for
AtPieceLock(thread) == calls[thread].at \in {"lock_piece", "verify_lock", "scan_lock"}

AtStorageLock(thread) == calls[thread].at = "lock_storage"

Wanted(thread) ==
    IF AtPieceLock(thread) THEN holders.piece[calls[thread].index]
    ELSE IF AtStorageLock(thread) THEN holders.storage
    ELSE {}

\* thread cannot go on before other lets go of a mutex
WaitsFor(thread, other) == other \in Wanted(thread)

\* the thread is in a call that locks the storage first and a piece second
StorageThenPiece(thread) ==
    calls[thread].op = "rebuild_download_queue" /\ calls[thread].at \in {"scan_lock", "scan"}

\* the thread is in a call that locks a piece first and the storage second
PieceThenStorage(thread) ==
    calls[thread].op \in {"handle_block_received", "verify_and_write_piece"}
    /\ calls[thread].at \in {"verify", "lock_storage", "write"}

\* C40 - deadlock freedom: no thread waits for a mutex it holds itself
\* (handle_block_received has released the piece when verify_and_write_piece
\* locks it again), no two threads wait for each other, a thread that is back
\* from a call holds no mutex (also after an error return), and the two lock
\* orders, storage then piece and piece then storage, are never in progress
\* in two threads at once.
DeadlockFree ==
    /\ \A thread \in Threads : ~WaitsFor(thread, thread)
    /\ \A t1, t2 \in Threads : ~(t1 # t2 /\ WaitsFor(t1, t2) /\ WaitsFor(t2, t1))
    /\ \A thread \in Threads :
           calls[thread].at = "verify_lock" => thread \notin holders.piece[calls[thread].index]
    /\ \A thread \in Threads :
           Idle(thread) => HeldPieces(thread) = {} /\ ~HoldsStorage(thread)
    /\ \A t1, t2 \in Threads : ~(t1 # t2 /\ StorageThenPiece(t1) /\ PieceThenStorage(t2))
    /\ \A index \in DOMAIN holders.piece : Cardinality(holders.piece[index]) <= 1
    /\ Cardinality(holders.storage) <= 1

\* handle_block_received has completed a piece and released its mutex, and
\* verify_and_write_piece is about to lock it again
DeadlockFreeSeen ==
    \E thread \in Threads :
        /\ calls[thread].at = "verify_lock"
        /\ holders.piece[calls[thread].index] = {}
        /\ pieces[calls[thread].index].state = "Complete"

====
